---- MODULE Spec2Model ----
(***************************************************************************)
(* Model of the ZeroMQ transport core of savant-rs                         *)
(* (savant_core/src/transport/zeromq.rs) and of the objects of a video     *)
(* frame (src/primitives/message/video/frame.rs).                          *)
(*                                                                         *)
(* Specifications:                                                         *)
(*   Spec        RoutingIdFilter under arbitrary allow calls               *)
(*   SpecAge     the same, with the expiry of one chosen pair followed     *)
(*   SpecSingle  RoutingIdFilter under arbitrary allow calls on one topic  *)
(*   SpecScript  RoutingIdFilter driven by the five-call sequence of       *)
(*               test_routing_id_filter on two interleaved topics          *)
(*   SpecWriter  Writer send_message / send_eos retry and acknowledgment   *)
(*               loop                                                      *)
(*   SpecReader  Reader receive under frames of arbitrary peers            *)
(*   SpecReaderLive  the same, with a running clock and a socket that      *)
(*               honours its receive timeout                               *)
(*   SpecStream  one writer streaming data messages and an end of stream   *)
(*               to one reader                                             *)
(*   SpecUri     parse_zmq_socket_uri on well-formed and malformed strings *)
(*   SpecRoundTrip  parse_zmq_socket_uri on formatted descriptors           *)
(*   SpecMatch   TopicPrefixSpec::matches                                  *)
(*   SpecMock    the mock socket under its calls                           *)
(*   SpecIpc     create_ipc_dirs and set_ipc_permissions around a bind     *)
(*   SpecSelect  VideoFrame access_objects and delete_objects              *)
(*   SpecFrame   the objects of a VideoFrame under snapshot and restore    *)
(*   SpecPair    RoutingIdFilter under calls on two topics, next to a      *)
(*               second filter that gets the calls of one topic alone      *)
(***************************************************************************)
EXTENDS Integers, Sequences, FiniteSets, TLC

(***************************************************************************)
(* Bounds                                                                  *)
(***************************************************************************)
\* largest `size` handed to RoutingIdFilter::new
MaxCapacity == 2
\* number of distinct one-byte routing ids
NumIds == 3
\* largest retry count a writer is configured with
MaxRetries == 2
\* largest receive timeout of a reader, in clock ticks
MaxTimeout == 2
\* largest number of data messages of a stream
MaxMsgs == 3
\* largest high-water mark of a socket pair
MaxHwm == 2
\* longest topic handed to TopicPrefixSpec::matches, in bytes
MaxTopicLen == 3
\* largest number of calls made on a mock socket
MaxOps == 3
\* largest number of objects added to a frame
MaxObjects == 2
\* largest number of Object handles the caller holds at a time
MaxHandles == 1

(***************************************************************************)
(* Values                                                                  *)
(***************************************************************************)
\* Option::None for routing_id
None == <<0>>

\* topic1 / topic2 of test_routing_id_filter
Topic1 == <<1, 2, 3>>
Topic2 == <<1, 2, 4>>
Topics == {Topic1, Topic2}

\* routing ids are byte strings: NumIds ids of one byte and one id of two
\* bytes (a peer that configured a longer identity)
ShortIds == {<<b>> : b \in 1..NumIds}
LongId == <<1, 2>>
RoutingIds == ShortIds \cup {LongId}

Min(a, b) == IF a <= b THEN a ELSE b

SeqToSet(s) == {s[i] : i \in 1..Len(s)}

VARIABLES
    \* ---- RoutingIdFilter ----
    capacity,      \* the size the filter was created with
    ids,           \* RoutingIdFilter.ids : topic -> current routing id
    expired,       \* RoutingIdFilter.expired_routing_ids, least recent first
    result,        \* outcome of the last allow call
    call,          \* arguments of the last allow call
    panicked,      \* an allow call unwound with a panic
    stale,         \* pairs replaced as current and in the LRU ever since
    last,          \* topic -> whether a call carried an id, and the id of
                   \* the latest such call that returned true
    \* ---- history of the filter ----
    watched,       \* the pair whose expiry is followed
    age,           \* identity changes since the change expiring watched
    switches,      \* topic -> completed identity changes (saturating)
    firstExpired,  \* topic -> the id of that topic that was expired first
    solo,          \* a second filter, given the calls of Topic1 alone
    \* ---- scripted run of test_routing_id_filter ----
    script,        \* topic -> the five routing ids of its call sequence
    pc,            \* topic -> number of scripted calls made
    res,           \* topic -> results of the scripted calls
    \* ---- Writer ----
    wrole,         \* WriterSocketType of the writer
    wsend_retries, \* configured send retries
    wreceive_retries, \* configured acknowledgment receive retries
    wpc,           \* position of the running send_message / send_eos
    wis_eos,       \* the running call is send_eos
    wsend_spent,   \* send retries spent by the running call
    wreceive_spent, \* acknowledgment receive retries spent by the call
    wwaited,       \* the running call waited for an acknowledgment
    wresult,       \* WriterResult of the last finished call
    wtrace,        \* outcomes of the socket operations of the running call
    \* ---- Reader ----
    rrole,         \* ReaderSocketType of the reader
    rprefix,       \* TopicPrefixSpec of the reader
    rtimeout,      \* configured receive timeout, in clock ticks
    rpc,           \* position of the running receive
    relapsed,      \* clock ticks the running receive has waited
    rframe,        \* the multipart frame the last receive took off the socket
    rresult,       \* ReaderResult of the last finished receive
    rack,          \* the confirmation the last receive put on the socket
    \* ---- one writer streaming to one reader ----
    wire,          \* frames buffered between the two sockets, oldest first
    snum,          \* number of data messages of the stream
    sposted,       \* frames the writer has sent so far
    shwm,          \* configured high-water mark of the socket pair
    slog,          \* the Message / EndOfStream results of the reader so far
    \* ---- parse_zmq_socket_uri ----
    uri,           \* the string handed to parse_zmq_socket_uri
    parsed,        \* what the call returned
    desc,          \* the descriptor that was formatted into uri
    \* ---- TopicPrefixSpec::matches ----
    tspec,         \* the TopicPrefixSpec
    ttopic,        \* the topic handed to matches
    tmatched,      \* what matches returned
    \* ---- Socket::MockSocket ----
    mdata,         \* the buffer of the mock socket
    mresp,         \* the responder of the mock socket
    mfix,          \* the buffers the responder was invoked on, in order
    mlog,          \* the calls made on the mock socket, in order
    \* ---- the file system of the ipc:// endpoints ----
    fs,            \* path -> what is there, and its mode
    fbefore,       \* fs before the last step
    fendpoint,     \* the endpoint of the socket
    fperm,         \* the permission bits of the configuration, if any
    fpc,           \* how far the socket has come: new, prepared, bound, done
    fret,          \* what the last step called, and what that returned
    \* ---- VideoFrame ----
    heap,          \* address -> the InnerObject behind it
    resident_objects, \* InnerVideoFrame.resident_objects, as addresses
    offline_objects,  \* InnerVideoFrame.offline_objects, as values
    handles,       \* the addresses the caller holds an Object for
    snapped,       \* the objects of the frame at the last snapshot
    flast          \* the last call on the frame

filterVars == <<capacity, ids, expired, result, call, panicked, stale, last>>
histVars == <<watched, age, switches, firstExpired, solo>>
scriptVars == <<script, pc, res>>
writerVars == <<wrole, wsend_retries, wreceive_retries, wpc, wis_eos,
                wsend_spent, wreceive_spent, wwaited, wresult, wtrace>>
readerVars == <<rrole, rprefix, rtimeout, rpc, relapsed, rframe, rresult,
                rack>>
streamVars == <<wire, snum, sposted, shwm, slog>>
uriVars == <<uri, parsed>>
matchVars == <<tspec, ttopic, tmatched>>
mockVars == <<mdata, mresp, mfix, mlog>>
fsVars == <<fs, fbefore, fendpoint, fperm, fpc, fret>>
frameVars == <<heap, resident_objects, offline_objects, handles, snapped,
               flast>>
auxVars == <<desc, matchVars, mockVars, fsVars, frameVars>>
ioVars == <<readerVars, streamVars, uriVars, auxVars>>
vars == <<filterVars, histVars, scriptVars, writerVars, ioVars>>

(***************************************************************************)
(* lru::LruCache as used by the filter                                     *)
(***************************************************************************)
\* LruCache::contains: membership, recency untouched
Contains(e, key) == \E i \in 1..Len(e) : e[i] = key

Remove(e, key) == SelectSeq(e, LAMBDA x : x # key)

\* a lookup that makes the entry it finds the most recent one, as
\* LruCache::get does
AfterGet(e, key) == Append(Remove(e, key), key)

\* the cache after LruCache::contains found key: as it was
AfterContains(e, key) == e

\* put that drops the most recent entry of a full cache
LruPutEvictNewest(e, cap, key) ==
    IF Contains(e, key) THEN Append(Remove(e, key), key)
    ELSE IF Len(e) >= cap THEN Append(SubSeq(e, 1, Len(e) - 1), key)
    ELSE Append(e, key)

\* put that starts evicting only after the capacity is exceeded
LruPutLate(e, cap, key) ==
    IF Contains(e, key) THEN Append(Remove(e, key), key)
    ELSE IF Len(e) > cap THEN Append(Tail(e), key)
    ELSE Append(e, key)

\* put that keeps room for one entry less than the capacity
LruPutEarly(e, cap, key) ==
    IF Contains(e, key) THEN Append(Remove(e, key), key)
    ELSE IF Len(e) >= 1 /\ Len(e) + 1 >= cap THEN Append(Tail(e), key)
    ELSE Append(e, key)

\* LruCache::put: an existing key is promoted, otherwise the least recent
\* entry is dropped when the cache is full and the key becomes most recent
LruPut(e, cap, key) ==
    IF Contains(e, key) THEN Append(Remove(e, key), key)
    ELSE IF Len(e) >= cap THEN Append(Tail(e), key)
    ELSE Append(e, key)

(***************************************************************************)
(* RoutingIdFilter::allow                                                  *)
(***************************************************************************)
\* entry(topic).or_default(): records an empty id for a new topic
OrInsertDefault(m, topic, routing_id) ==
    IF topic \in DOMAIN m THEN m
    ELSE [t \in DOMAIN m \cup {topic} |-> IF t = topic THEN <<>> ELSE m[t]]

\* self.ids.entry(topic).or_insert(routing_id)
OrInsert(m, topic, routing_id) ==
    IF topic \in DOMAIN m THEN m
    ELSE [t \in DOMAIN m \cup {topic} |-> IF t = topic THEN routing_id ELSE m[t]]

\* no early return for a missing routing id
IsNoneNever(routing_id) == FALSE

\* routing_id.is_none()
IsNone(routing_id) == routing_id = None

\* looking up the current id instead of the received one
LookupKeyCurrent(topic, current, routing_id) == <<topic, current>>

\* the key looked up in the expired set
LookupKey(topic, current, routing_id) == <<topic, routing_id>>

\* expiring the received id instead of the previous one
ExpiredKeyReceived(topic, current, routing_id) == <<topic, routing_id>>

\* the key put into the expired set on an identity change
ExpiredKey(topic, current, routing_id) == <<topic, current>>

\* <[u8]>::clone_from_slice panics unless both slices have the same length
CloneFits(dst, src) == Len(dst) = Len(src)
\* a copy that leaves the destination as it was
CloneNothing(dst, src) == dst
\* <[u8]>::clone_from_slice: every element of dst is overwritten
CloneFromSlice(dst, src) == [i \in 1..Len(dst) |-> src[i]]

\* the whole of allow: the filter it leaves and what it returns
allow(m, e, cap, topic, routing_id) ==
    IF IsNone(routing_id)
    THEN [ids |-> m, expired |-> e, ret |-> "true"]
    ELSE LET m1 == OrInsert(m, topic, routing_id)
             current == m1[topic]
         IN  IF current = routing_id
             THEN [ids |-> m1, expired |-> e, ret |-> "true"]
             ELSE IF Contains(e, LookupKey(topic, current, routing_id))
             THEN [ids |-> m1,
                   expired |-> AfterContains(e, LookupKey(topic, current,
                                                          routing_id)),
                   ret |-> "false"]
             ELSE LET e1 == LruPut(e, cap, ExpiredKey(topic, current, routing_id))
                  IN  IF CloneFits(current, routing_id)
                      THEN [ids |-> [m1 EXCEPT ![topic] = CloneFromSlice(current, routing_id)],
                            expired |-> e1, ret |-> "true"]
                      ELSE [ids |-> m1, expired |-> e1, ret |-> "panic"]

NoCall == [topic |-> <<>>, routing_id |-> <<>>]

\* no call on any topic has carried a routing id
NoLast == [t \in Topics |-> [carried |-> FALSE, id |-> None]]

\* the calls of a topic so far, after allow(topic, routing_id) returned ret
Latest(l, topic, routing_id, ret) ==
    IF routing_id = None THEN l
    ELSE [l EXCEPT ![topic] =
             [carried |-> TRUE,
              id |-> IF ret = "true" THEN routing_id ELSE l[topic].id]]

\* an identity change: the call replaced the current id of its topic
IsSwitch(m, r, topic) ==
    /\ topic \in DOMAIN m
    /\ r.ret = "true"
    /\ r.ids[topic] # m[topic]

Pairs == Topics \X RoutingIds
\* markers of the age history: not expired yet / expired and current again
NoAge == 0 - 1
Readmitted == 0 - 2

\* one call of allow: the filter it leaves behind, what it returned, and
\* the pairs that were replaced as current and stayed expired ever since.
\* A call that panics unwinds through its caller with the put at line 210
\* already done; no further call is made on that filter.
FilterStep(topic, routing_id) ==
    /\ ~panicked
    /\ LET r == allow(ids, expired, capacity, topic, routing_id)
       IN  /\ capacity' = capacity
           /\ ids' = r.ids
           /\ expired' = r.expired
           /\ result' = r.ret
           /\ panicked' = (r.ret = "panic")
           /\ call' = [topic |-> topic, routing_id |-> routing_id]
           /\ stale' = (IF IsSwitch(ids, r, topic)
                        THEN stale \cup {<<topic, ids[topic]>>}
                        ELSE stale) \cap SeqToSet(r.expired)
           /\ last' = Latest(last, topic, routing_id, r.ret)

\* history: identity changes (on any topic) counted since the change that
\* expired the watched pair, saturating at the capacity; when the watched
\* pair becomes current again it is marked Readmitted
AgeStep(topic, routing_id) ==
    LET r == allow(ids, expired, capacity, topic, routing_id)
        sw == IsSwitch(ids, r, topic)
    IN  /\ age' = IF sw /\ watched = <<topic, ids[topic]>> THEN 0
                  ELSE IF sw /\ watched = <<topic, routing_id>>
                  THEN (IF age = NoAge THEN NoAge ELSE Readmitted)
                  ELSE IF sw /\ age >= 0 THEN Min(age + 1, capacity)
                  ELSE age
        /\ UNCHANGED watched

\* history: completed identity changes per topic (saturating) and the id of
\* the topic that was expired first
CountStep(topic, routing_id) ==
    LET r == allow(ids, expired, capacity, topic, routing_id)
        sw == IsSwitch(ids, r, topic)
    IN  /\ switches' = IF sw
                       THEN [switches EXCEPT ![topic] = Min(@ + 1, capacity + 3)]
                       ELSE switches
        /\ firstExpired' = IF sw /\ firstExpired[topic] = None
                           THEN [firstExpired EXCEPT ![topic] = ids[topic]]
                           ELSE firstExpired

\* RoutingIdFilter::new(size) for the second filter; no call made yet, no
\* identity change on the first filter yet
NoSolo ==
    [ids |-> [t \in {} |-> None], expired |-> <<>>, panicked |-> FALSE,
     agree |-> TRUE, changes |-> 0]

\* the second filter gets the call if it is a call on Topic1, and what it
\* returns is compared with what the first filter returns; the identity
\* changes of the first filter, on any topic, are counted (saturating)
SoloStep(topic, routing_id) ==
    LET r == allow(ids, expired, capacity, topic, routing_id)
        q == allow(solo.ids, solo.expired, capacity, topic, routing_id)
        n == IF IsSwitch(ids, r, topic)
             THEN Min(solo.changes + 1, capacity + 1)
             ELSE solo.changes
    IN  solo' = IF topic # Topic1 THEN [solo EXCEPT !.changes = n]
                ELSE IF solo.panicked
                THEN [solo EXCEPT !.agree = FALSE, !.changes = n]
                ELSE [ids |-> q.ids,
                      expired |-> q.expired,
                      panicked |-> (q.ret = "panic"),
                      agree |-> (solo.agree /\ q.ret = r.ret),
                      changes |-> n]

(***************************************************************************)
(* Spec: any sequence of allow calls on a filter of any capacity           *)
(***************************************************************************)
\* RoutingIdFilter::new(size): NonZeroUsize::try_from rejects size = 0
InitFilter ==
    /\ capacity \in 1..MaxCapacity
    /\ ids = [t \in {} |-> None]
    /\ expired = <<>>
    /\ result = "none"
    /\ call = NoCall
    /\ panicked = FALSE
    /\ stale = {}
    /\ last = NoLast
    /\ watched = <<Topic1, LongId>>
    /\ age = NoAge
    /\ switches = [t \in Topics |-> 0]
    /\ firstExpired = [t \in Topics |-> None]
    /\ solo = NoSolo

NoScript == [t \in Topics |-> <<>>]

\* no scripted run
ScriptUnused ==
    /\ script = NoScript
    /\ pc = [t \in Topics |-> 0]
    /\ res = [t \in Topics |-> <<>>]

\* no writer in use
WriterUnused ==
    /\ wrole = "Pub"
    /\ wsend_retries = 0
    /\ wreceive_retries = 0
    /\ wpc = "idle"
    /\ wis_eos = FALSE
    /\ wsend_spent = 0
    /\ wreceive_spent = 0
    /\ wwaited = FALSE
    /\ wresult = "none"
    /\ wtrace = <<>>

\* no frame taken off the socket / no result yet / no confirmation sent
NoFrame == [routing_id |-> None, topic |-> <<>>, kind |-> "none", seq |-> 0]
NoResult == [kind |-> "none", topic |-> <<>>, routing_id |-> None, seq |-> 0]
NoConfirmation == [sent |-> FALSE, to |-> None, data |-> <<>>]
\* TopicPrefixSpec::None
PrefixNone == [kind |-> "None", s |-> <<>>]
\* parse_zmq_socket_uri has not been called
NotParsed == [ok |-> FALSE, error |-> "not called"]

\* no reader in use
ReaderUnused ==
    /\ rrole = "Sub"
    /\ rprefix = PrefixNone
    /\ rtimeout = 1
    /\ rpc = "idle"
    /\ relapsed = 0
    /\ rframe = NoFrame
    /\ rresult = NoResult
    /\ rack = NoConfirmation

\* no stream in use
StreamUnused ==
    /\ wire = <<>>
    /\ snum = 0
    /\ sposted = 0
    /\ shwm = 1
    /\ slog = <<>>

\* no uri in use
UriUnused ==
    /\ uri = <<>>
    /\ parsed = NotParsed

\* no descriptor in use
NoDesc == [endpoint |-> <<>>]

\* matches has not been called
NotMatched == [called |-> FALSE, ret |-> FALSE]

\* no prefix spec in use
MatchUnused ==
    /\ tspec = PrefixNone
    /\ ttopic = <<>>
    /\ tmatched = NotMatched

\* no mock socket in use
MockUnused ==
    /\ mdata = <<>>
    /\ mresp = "Noop"
    /\ mfix = <<>>
    /\ mlog = <<>>

\* no file system in use
FsUnused ==
    /\ fs = <<>>
    /\ fbefore = <<>>
    /\ fendpoint = <<>>
    /\ fperm = <<>>
    /\ fpc = "new"
    /\ fret = [op |-> "none", ret |-> "ok"]

\* no frame in use
FrameUnused ==
    /\ heap = <<>>
    /\ resident_objects = <<>>
    /\ offline_objects = <<>>
    /\ handles = {}
    /\ snapped = [taken |-> FALSE, objects |-> <<>>, changed |-> FALSE]
    /\ flast = [op |-> "new"]

AuxUnused ==
    /\ desc = NoDesc
    /\ MatchUnused
    /\ MockUnused
    /\ FsUnused
    /\ FrameUnused

IoUnused ==
    /\ ReaderUnused
    /\ StreamUnused
    /\ UriUnused
    /\ AuxUnused

Init ==
    /\ InitFilter
    /\ ScriptUnused
    /\ WriterUnused
    /\ IoUnused

Allow ==
    \E topic \in Topics, routing_id \in RoutingIds \cup {None} :
        /\ FilterStep(topic, routing_id)
        /\ UNCHANGED <<histVars, scriptVars, writerVars, ioVars>>

Next == Allow

Spec == Init /\ [][Next]_vars

(***************************************************************************)
(* SpecAge: any sequence of allow calls, the expiry of one pair followed   *)
(***************************************************************************)
\* the pair to follow is a pair an identity change can expire: a change
\* away from the one two-byte id does not complete, and the one-byte ids
\* are interchangeable to the filter, so the first of them is followed on
\* either topic
InitAge ==
    /\ capacity \in 1..MaxCapacity
    /\ ids = [t \in {} |-> None]
    /\ expired = <<>>
    /\ result = "none"
    /\ call = NoCall
    /\ panicked = FALSE
    /\ stale = {}
    /\ last = NoLast
    /\ watched \in Topics \X {<<1>>}
    /\ age = NoAge
    /\ switches = [t \in Topics |-> 0]
    /\ firstExpired = [t \in Topics |-> None]
    /\ solo = NoSolo
    /\ ScriptUnused
    /\ WriterUnused
    /\ IoUnused

AllowAged ==
    \E topic \in Topics, routing_id \in RoutingIds \cup {None} :
        /\ FilterStep(topic, routing_id)
        /\ AgeStep(topic, routing_id)
        /\ UNCHANGED <<switches, firstExpired, solo>>
        /\ UNCHANGED <<scriptVars, writerVars, ioVars>>

NextAge == AllowAged

SpecAge == InitAge /\ [][NextAge]_vars

(***************************************************************************)
(* SpecPair: any sequence of allow calls on two topics, next to a second   *)
(* filter of the same capacity that gets the calls of Topic1 alone         *)
(***************************************************************************)
\* three one-byte ids, which give each topic two identity changes before
\* it has to come back to an id, and the two-byte id
PairIds == {<<1>>, <<2>>, <<3>>, LongId}

AllowPair ==
    \E topic \in Topics, routing_id \in PairIds \cup {None} :
        /\ FilterStep(topic, routing_id)
        /\ SoloStep(topic, routing_id)
        /\ UNCHANGED <<watched, age, switches, firstExpired>>
        /\ UNCHANGED <<scriptVars, writerVars, ioVars>>

NextPair == AllowPair

SpecPair == Init /\ [][NextPair]_vars

(***************************************************************************)
(* SpecSingle: any sequence of allow calls on one topic                    *)
(***************************************************************************)
\* enough one-byte ids for capacity + 1 identity changes after the first id
SingleIds == {<<b>> : b \in 1..(MaxCapacity + 2)} \cup {LongId}

AllowSingle ==
    \E routing_id \in SingleIds \cup {None} :
        /\ FilterStep(Topic1, routing_id)
        /\ CountStep(Topic1, routing_id)
        /\ UNCHANGED <<watched, age, solo, scriptVars, writerVars, ioVars>>

NextSingle == AllowSingle

SpecSingle == Init /\ [][NextSingle]_vars

(***************************************************************************)
(* SpecScript: test_routing_id_filter, the two topics interleaved          *)
(***************************************************************************)
\* RoutingIdFilter::new(2) of the test
TestCapacity == 2
ScriptLen == 5

\* allow(t, None), allow(t, r1), allow(t, r2), allow(t, r1), allow(t, r2)
ScriptOf(r1, r2) == <<None, r1, r2, r1, r2>>

\* the results the test asserts for the five calls
Expected == <<"true", "true", "true", "false", "true">>

\* routing_id / routing_id2 of the test are two distinct ids of equal length;
\* each topic takes them in either order
Scripts == {ScriptOf(r1, r2) : r1 \in ShortIds, r2 \in ShortIds} \
               {ScriptOf(r, r) : r \in ShortIds}

InitScript ==
    /\ InitFilter
    /\ capacity = TestCapacity
    /\ script \in [Topics -> Scripts]
    /\ pc = [t \in Topics |-> 0]
    /\ res = [t \in Topics |-> <<>>]
    /\ WriterUnused
    /\ IoUnused

ScriptStep ==
    \E t \in Topics :
        /\ pc[t] < ScriptLen
        /\ FilterStep(t, script[t][pc[t] + 1])
        /\ pc' = [pc EXCEPT ![t] = @ + 1]
        /\ res' = [res EXCEPT ![t] = Append(@, result')]
        /\ UNCHANGED <<histVars, script, writerVars, ioVars>>

NextScript == ScriptStep

SpecScript == InitScript /\ [][NextScript]_vars

(***************************************************************************)
(* SpecWriter: Writer::send_message and Writer::send_eos                   *)
(***************************************************************************)
\* WriterSocketType
WriterRoles == {"Pub", "Dealer", "Req"}

\* only a Request writer waits for the reply
AwaitsAckOnlyReq(role, is_eos) == role = "Req"

\* every call waits for the reply
AwaitsAckAlways(role, is_eos) == TRUE

\* only send_eos waits for the reply
AwaitsAckOnlyEos(role, is_eos) == is_eos /\ role \in {"Dealer", "Req"}

\* whether a call waits for the "OK" reply after its send succeeded, as the
\* integration tests assert it for the six combinations of role and call:
\*   Req    send_message -> Ack      Req    send_eos -> Ack
\*   Dealer send_message -> Success  Dealer send_eos -> Ack
\*   Pub    send_message -> Success  Pub    send_eos -> Success
AwaitsAck(role, is_eos) ==
    \/ role = "Req"
    \/ role = "Dealer" /\ is_eos

InitWriter ==
    /\ wrole \in WriterRoles
    /\ wsend_retries \in 0..MaxRetries
    /\ wreceive_retries \in 0..MaxRetries
    /\ wpc = "idle"
    /\ wis_eos = FALSE
    /\ wsend_spent = 0
    /\ wreceive_spent = 0
    /\ wwaited = FALSE
    /\ wresult = "none"
    /\ wtrace = <<>>

\* no filter in use
FilterUnused ==
    /\ capacity = 1
    /\ ids = [t \in {} |-> None]
    /\ expired = <<>>
    /\ result = "none"
    /\ call = NoCall
    /\ panicked = FALSE
    /\ stale = {}
    /\ last = NoLast
    /\ watched = <<Topic1, LongId>>
    /\ age = NoAge
    /\ switches = [t \in Topics |-> 0]
    /\ firstExpired = [t \in Topics |-> None]
    /\ solo = NoSolo

InitWriterSpec ==
    /\ InitWriter
    /\ FilterUnused
    /\ ScriptUnused
    /\ IoUnused

WriterResult(kind) ==
    [kind |-> kind, send_retries_spent |-> wsend_spent,
     receive_retries_spent |-> wreceive_spent, is_eos |-> wis_eos,
     waited |-> wwaited]

\* a call that goes on counting where the previous call stopped
StartCallKeepsCounters(is_eos) ==
    /\ wpc = "idle"
    /\ wpc' = "send"
    /\ wis_eos' = is_eos
    /\ wwaited' = FALSE
    /\ wtrace' = <<>>
    /\ UNCHANGED <<wrole, wsend_retries, wreceive_retries, wresult,
                   wsend_spent, wreceive_spent>>
    /\ UNCHANGED <<filterVars, histVars, scriptVars, ioVars>>

\* a call starts: both retry counters start from zero
StartCall(is_eos) ==
    /\ wpc = "idle"
    /\ wpc' = "send"
    /\ wis_eos' = is_eos
    /\ wsend_spent' = 0
    /\ wreceive_spent' = 0
    /\ wwaited' = FALSE
    /\ wtrace' = <<>>
    /\ UNCHANGED <<wrole, wsend_retries, wreceive_retries, wresult>>
    /\ UNCHANGED <<filterVars, histVars, scriptVars, ioVars>>

\* Writer::send_message(topic, message, extra)
SendMessage == StartCall(FALSE)

\* Writer::send_eos(topic)
SendEos == StartCall(TRUE)

\* one send attempt succeeds: the call returns Success or goes on to wait
SendOk ==
    /\ wpc = "send"
    /\ IF AwaitsAck(wrole, wis_eos)
       THEN /\ wpc' = "ack"
            /\ wwaited' = TRUE
            /\ UNCHANGED wresult
       ELSE /\ wpc' = "done"
            /\ wresult' = WriterResult("Success")
            /\ UNCHANGED wwaited
    /\ wtrace' = Append(wtrace, "sent")
    /\ UNCHANGED <<wrole, wsend_retries, wreceive_retries, wis_eos,
                   wsend_spent, wreceive_spent>>
    /\ UNCHANGED <<filterVars, histVars, scriptVars, ioVars>>

\* one send attempt would block: retry, or give up once the retries are spent
SendAgain ==
    /\ wpc = "send"
    /\ IF wsend_spent < wsend_retries
       THEN /\ wsend_spent' = wsend_spent + 1
            /\ UNCHANGED <<wpc, wresult>>
       ELSE /\ wpc' = "done"
            /\ wresult' = WriterResult("SendFailed")
            /\ UNCHANGED wsend_spent
    /\ wtrace' = Append(wtrace, "would_block")
    /\ UNCHANGED <<wrole, wsend_retries, wreceive_retries, wis_eos,
                   wreceive_spent, wwaited>>
    /\ UNCHANGED <<filterVars, histVars, scriptVars, ioVars>>

\* the "OK" reply is received
AckReceived ==
    /\ wpc = "ack"
    /\ wpc' = "done"
    /\ wresult' = WriterResult("Ack")
    /\ wtrace' = Append(wtrace, "reply")
    /\ UNCHANGED <<wrole, wsend_retries, wreceive_retries, wis_eos,
                   wsend_spent, wreceive_spent, wwaited>>
    /\ UNCHANGED <<filterVars, histVars, scriptVars, ioVars>>

\* the acknowledgment receive timed out: retry, or give up with NoAck
AckTimedOut ==
    /\ wpc = "ack"
    /\ IF wreceive_spent < wreceive_retries
       THEN /\ wreceive_spent' = wreceive_spent + 1
            /\ UNCHANGED <<wpc, wresult>>
       ELSE /\ wpc' = "done"
            /\ wresult' = WriterResult("NoAck")
            /\ UNCHANGED wreceive_spent
    /\ wtrace' = Append(wtrace, "timeout")
    /\ UNCHANGED <<wrole, wsend_retries, wreceive_retries, wis_eos,
                   wsend_spent, wwaited>>
    /\ UNCHANGED <<filterVars, histVars, scriptVars, ioVars>>

\* the call hands its result to the caller; the writer can be used again
Return ==
    /\ wpc = "done"
    /\ wpc' = "idle"
    /\ UNCHANGED <<wrole, wsend_retries, wreceive_retries, wis_eos,
                   wsend_spent, wreceive_spent, wwaited, wresult, wtrace>>
    /\ UNCHANGED <<filterVars, histVars, scriptVars, ioVars>>

NextWriter ==
    \/ SendMessage
    \/ SendEos
    \/ SendOk
    \/ SendAgain
    \/ AckReceived
    \/ AckTimedOut
    \/ Return

SpecWriter == InitWriterSpec /\ [][NextWriter]_vars

(***************************************************************************)
(* SpecUri: parse_zmq_socket_uri                                           *)
(*                                                                         *)
(* A string is a sequence of tokens.  A word token stands for its letters, *)
(* a symbol token for one character.  No keyword of the two patterns       *)
(* occurs in a string of these tokens except as a whole token, so matching *)
(* token by token finds what the patterns find character by character.     *)
(* Strings are single-line: no token holds a line break.                   *)
(***************************************************************************)
RoleWords == {"pub", "sub", "req", "rep", "dealer", "router"}
WriterWords == {"pub", "dealer", "req"}
ReaderWords == {"sub", "router", "rep"}
DirWords == {"bind", "connect"}
SchemeWords == {"tcp", "ipc"}
\* words of [a-z]+ that are no keyword
OtherWords == {"udp", "x"}
LowerWords == RoleWords \cup DirWords \cup SchemeWords \cup OtherWords

\* [a-z]
IsLower(c) == c \in LowerWords

\* . in place of [^:]
IsAny(c) == TRUE

\* [^:]
IsNotColon(c) == c # ":"

\* Option<T>
Some(x) == <<x>>
NoneOpt == <<>>

\* index after the longest run of [a-z] tokens that starts at s
LowerRunEnd(u, s) ==
    CHOOSE k \in s..(Len(u) + 1) :
        /\ \A i \in s..(k - 1) : IsLower(u[i])
        /\ k = Len(u) + 1 \/ ~IsLower(u[k])

\* index after the longest run of [^:] tokens that starts at s
NotColonRunEnd(u, s) ==
    CHOOSE k \in s..(Len(u) + 1) :
        /\ \A i \in s..(k - 1) : IsNotColon(u[i])
        /\ k = Len(u) + 1 \/ ~IsNotColon(u[k])

\* group 1, ([a-z]+\+[a-z]+:), matched at s: the index of its last token,
\* 0 when it does not match there
OptionsEnd(u, s) ==
    LET i == LowerRunEnd(u, s) IN
    IF i > s /\ i <= Len(u) /\ u[i] = "+"
    THEN LET j == LowerRunEnd(u, i + 1) IN
         IF j > i + 1 /\ j <= Len(u) /\ u[j] = ":" THEN j ELSE 0
    ELSE 0

\* group 2, ((?:tcp|ipc)://[^:]+), matched at s: the index of its last
\* token, 0 when it does not match there
EndpointEnd(u, s) ==
    IF /\ s >= 1
       /\ s + 4 <= Len(u)
       /\ u[s] \in SchemeWords
       /\ u[s + 1] = ":"
       /\ u[s + 2] = "/"
       /\ u[s + 3] = "/"
       /\ IsNotColon(u[s + 4])
    THEN NotColonRunEnd(u, s + 4) - 1
    ELSE 0

\* group 3, (:.+), matches after the endpoint that ends at e
HasTail(u, e) == e + 2 <= Len(u) /\ u[e + 1] = ":"

NoMatch == [matched |-> FALSE]

\* the groups of a match whose group 2 starts at b and ends at e
Groups(u, options, b, e) ==
    [matched |-> TRUE,
     options |-> options,
     endpoint |-> SubSeq(u, b, e),
     tail |-> IF HasTail(u, e) THEN Some(SubSeq(u, e + 1, Len(u)))
              ELSE NoneOpt]

\* the pattern matched from s on: with group 1 when it can take part,
\* without it otherwise
MatchAt(u, s) ==
    LET o == OptionsEnd(u, s) IN
    IF o > 0 /\ EndpointEnd(u, o + 1) > 0
    THEN Groups(u, Some(SubSeq(u, s, o)), o + 1, EndpointEnd(u, o + 1))
    ELSE IF EndpointEnd(u, s) > 0
    THEN Groups(u, NoneOpt, s, EndpointEnd(u, s))
    ELSE NoMatch

\* SOCKET_URI_PATTERN.captures(&uri): the leftmost match anywhere in uri
UriCaptures(u) ==
    LET starts == {s \in 1..Len(u) : MatchAt(u, s).matched} IN
    IF starts = {} THEN NoMatch
    ELSE MatchAt(u, CHOOSE s \in starts : \A t \in starts : s <= t)

\* (pub|sub|req|rep|dealer|router)\+(bind|connect): matched at k
OptionsMatchAt(o, k) ==
    /\ k + 3 <= Len(o)
    /\ o[k] \in RoleWords
    /\ o[k + 1] = "+"
    /\ o[k + 2] \in DirWords
    /\ o[k + 3] = ":"

\* SOCKET_OPTIONS_PATTERN.captures(options): the leftmost match anywhere in
\* options
OptionsCaptures(o) ==
    LET starts == {k \in 1..Len(o) : OptionsMatchAt(o, k)} IN
    IF starts = {} THEN NoMatch
    ELSE LET k == CHOOSE s \in starts : \A t \in starts : s <= t IN
         [matched |-> TRUE, socket_type_str |-> o[k], bind_str |-> o[k + 2]]

\* match socket_type_str
SocketTypeOf(w) ==
    CASE w = "sub" -> [class |-> "Reader", type |-> "Sub"]
      [] w = "router" -> [class |-> "Reader", type |-> "Router"]
      [] w = "rep" -> [class |-> "Reader", type |-> "Rep"]
      [] w = "pub" -> [class |-> "Writer", type |-> "Pub"]
      [] w = "dealer" -> [class |-> "Writer", type |-> "Dealer"]
      [] w = "req" -> [class |-> "Writer", type |-> "Req"]

\* every direction is read as bind
BindAlways(w) == TRUE

\* match bind_str
BindOf(w) == w = "bind"

\* the source keeps the colon of the tail
SourceKeepsColon(tail) == tail

\* source.as_str()[1..]
SourceOf(tail) == Tail(tail)

\* a source is taken whatever the socket type
SourceAllowedAlways(socket_type) == TRUE

\* a source is refused after a reader role only
SourceAllowedUnlessReader(socket_type) ==
    socket_type = NoneOpt \/ socket_type[1].class = "Writer"

\* if let Some(SocketType::Writer(_)) = socket_type
SourceAllowed(socket_type) ==
    socket_type # NoneOpt /\ socket_type[1].class = "Writer"

Err(msg) == [ok |-> FALSE, error |-> msg]

parse_zmq_socket_uri(u) ==
    LET c == UriCaptures(u) IN
    IF ~c.matched THEN Err("Invalid ZeroMQ socket URI")
    ELSE
    LET oc == IF c.options = NoneOpt THEN NoMatch
              ELSE OptionsCaptures(c.options[1])
        socket_type == IF oc.matched
                       THEN Some(SocketTypeOf(oc.socket_type_str))
                       ELSE NoneOpt
        bind == IF oc.matched THEN Some(BindOf(oc.bind_str)) ELSE NoneOpt
    IN
    IF c.options # NoneOpt /\ ~oc.matched THEN Err("Invalid socket options")
    ELSE IF c.tail # NoneOpt /\ ~SourceAllowed(socket_type)
    THEN Err("Source specification is not allowed for reader sockets")
    ELSE [ok |-> TRUE,
          endpoint |-> c.endpoint,
          bind |-> bind,
          socket_type |-> socket_type,
          source |-> IF c.tail # NoneOpt THEN Some(SourceOf(c.tail[1]))
                     ELSE NoneOpt]

\* ---- the strings handed to the parser ----
\* text in front of the uri
UriLead == {<<>>, <<"x">>, <<"1">>}
\* the word in the role position
UriRole == {<<w>> : w \in RoleWords} \cup
               {<<"x">>, <<"x", "pub">>, <<"pub", "x">>, <<"x", "sub">>}
\* the word in the direction position
UriDir == {<<w>> : w \in DirWords} \cup
              {<<"x">>, <<"bind", "x">>, <<"x", "bind">>}
UriOptions ==
    {<<>>} \cup {r \o <<"+">> \o d \o <<":">> : r \in UriRole, d \in UriDir}
\* the word in the scheme position
UriScheme == {<<"tcp">>, <<"ipc">>, <<"udp">>, <<"x", "tcp">>}
\* what follows the "://"
UriAddress == {<<"x">>, <<"/", "x", "/", "1">>, <<>>}
\* what follows the address
UriTail == {<<>>, <<":", "1">>, <<":">>, <<":", "x", ":", "1">>,
            <<":", "1", ":", "x">>}
Uris ==
    {l \o o \o sch \o <<":", "/", "/">> \o a \o t :
        l \in UriLead, o \in UriOptions, sch \in UriScheme,
        a \in UriAddress, t \in UriTail}

InitUri ==
    /\ uri \in Uris
    /\ parsed = NotParsed
    /\ FilterUnused
    /\ ScriptUnused
    /\ WriterUnused
    /\ ReaderUnused
    /\ StreamUnused
    /\ AuxUnused

\* let parsed = parse_zmq_socket_uri(uri)
ParseUri ==
    /\ parsed = NotParsed
    /\ parsed' = parse_zmq_socket_uri(uri)
    /\ UNCHANGED <<uri, readerVars, streamVars, auxVars>>
    /\ UNCHANGED <<filterVars, histVars, scriptVars, writerVars>>

NextUri == ParseUri

SpecUri == InitUri /\ [][NextUri]_vars

(***************************************************************************)
(* SpecReader: Reader::receive under frames of arbitrary peers             *)
(***************************************************************************)
\* ReaderSocketType
ReaderRoles == {"Sub", "Router", "Rep"}

\* a confirmation other than b"OK"
ConfirmationKo == <<75, 79>>

\* CONFIRMATION_MESSAGE = b"OK"
CONFIRMATION_MESSAGE == <<79, 75>>

\* TopicPrefixSpec::SourceId / TopicPrefixSpec::Prefix
SourceId(s) == [kind |-> "SourceId", s |-> s]
Prefix(s) == [kind |-> "Prefix", s |-> s]

\* <[u8]>::starts_with
StartsWith(topic, p) ==
    Len(topic) >= Len(p) /\ SubSeq(topic, 1, Len(p)) = p

\* a prefix spec that compares the whole topic
matchesWholeTopic(spec, topic) ==
    spec.kind = "None" \/ topic = spec.s

\* a source id spec that compares the start of the topic
matchesStartOfTopic(spec, topic) ==
    spec.kind = "None" \/ StartsWith(topic, spec.s)

\* TopicPrefixSpec::matches
matches(spec, topic) ==
    CASE spec.kind = "SourceId" -> topic = spec.s
      [] spec.kind = "Prefix" -> StartsWith(topic, spec.s)
      [] spec.kind = "None" -> TRUE

\* a topic that extends Topic1
LongTopic == <<1, 2, 3, 4>>
FrameTopics == Topics \cup {LongTopic}

\* the prefix specs a reader is configured with
PrefixSpecs == {SourceId(Topic1), Prefix(Topic1), PrefixNone}

\* routing ids of the peers of a Router: two of one byte, one of two bytes
PeerIds == {<<1>>, <<2>>, LongId}

\* the multipart frames a reader of this role can take off its socket:
\* data, end of stream, or a frame that lacks the metadata part
Frames(role) ==
    [routing_id : IF role = "Router" THEN PeerIds ELSE {None},
     topic : FrameTopics,
     kind : {"data", "eos", "short"},
     seq : {0}]

\* the roles that confirm a frame to its sender
Confirms(role) == role \in {"Rep", "Router"}

ReaderResult(kind, f) ==
    [kind |-> kind, topic |-> f.topic, routing_id |-> f.routing_id,
     seq |-> f.seq]

\* what receive makes of the frame f: its result, whether it confirms the
\* frame, and the filter it leaves
Decide(role, spec, m, e, cap, f) ==
    IF f.kind = "short"
    THEN [res |-> ReaderResult("TooShort", f), confirm |-> FALSE,
          ids |-> m, expired |-> e]
    ELSE IF ~matches(spec, f.topic)
    THEN [res |-> ReaderResult("PrefixMismatch", f), confirm |-> FALSE,
          ids |-> m, expired |-> e]
    ELSE IF f.kind = "eos"
    THEN [res |-> ReaderResult("EndOfStream", f), confirm |-> Confirms(role),
          ids |-> m, expired |-> e]
    ELSE LET a == allow(m, e, cap, f.topic, f.routing_id) IN
         IF a.ret = "panic"
         THEN [res |-> ReaderResult("panic", f), confirm |-> FALSE,
               ids |-> a.ids, expired |-> a.expired]
         ELSE IF a.ret = "false"
         THEN [res |-> ReaderResult("RoutingIdMismatch", f),
               confirm |-> FALSE, ids |-> a.ids, expired |-> a.expired]
         ELSE [res |-> ReaderResult("Message", f), confirm |-> Confirms(role),
               ids |-> a.ids, expired |-> a.expired]

\* the confirmation receive puts on the socket; sent is false when the send
\* failed
Confirmation(f, ack_ok) ==
    [sent |-> ack_ok, to |-> f.routing_id, data |-> CONFIRMATION_MESSAGE]

\* a receive that gives up without waiting
TimeoutDueAtOnce(elapsed, timeout) == TRUE

\* the socket gives up a receive once the receive timeout has elapsed
TimeoutDue(elapsed, timeout) == elapsed >= timeout

InitReader ==
    /\ rrole \in ReaderRoles
    /\ rprefix \in PrefixSpecs
    /\ rtimeout \in 1..MaxTimeout
    /\ rpc = "idle"
    /\ relapsed = 0
    /\ rframe = NoFrame
    /\ rresult = NoResult
    /\ rack = NoConfirmation
    /\ FilterUnused
    /\ ScriptUnused
    /\ WriterUnused
    /\ StreamUnused
    /\ UriUnused
    /\ AuxUnused

\* Reader::receive is called
StartReceive ==
    /\ rpc = "idle"
    /\ rpc' = "waiting"
    /\ relapsed' = 0
    /\ rframe' = NoFrame
    /\ rresult' = NoResult
    /\ rack' = NoConfirmation
    /\ UNCHANGED <<rrole, rprefix, rtimeout>>
    /\ UNCHANGED <<filterVars, histVars, scriptVars, writerVars, streamVars,
                   uriVars, auxVars>>

\* time passes while the receive waits
Tick ==
    /\ rpc = "waiting"
    /\ relapsed < rtimeout
    /\ relapsed' = relapsed + 1
    /\ UNCHANGED <<rrole, rprefix, rtimeout, rpc, rframe, rresult, rack>>
    /\ UNCHANGED <<filterVars, histVars, scriptVars, writerVars, streamVars,
                   uriVars, auxVars>>

\* no frame came in time
TimeoutExpires ==
    /\ rpc = "waiting"
    /\ TimeoutDue(relapsed, rtimeout)
    /\ rpc' = "done"
    /\ rresult' = ReaderResult("Timeout", NoFrame)
    /\ UNCHANGED <<rrole, rprefix, rtimeout, relapsed, rframe, rack>>
    /\ UNCHANGED <<filterVars, histVars, scriptVars, writerVars, streamVars,
                   uriVars, auxVars>>

\* the receive handles the frame f; ack_ok: the confirmation could be sent
Handle(f, ack_ok) ==
    LET d == Decide(rrole, rprefix, ids, expired, capacity, f) IN
    /\ rframe' = f
    /\ rresult' = d.res
    /\ rack' = IF d.confirm THEN Confirmation(f, ack_ok) ELSE NoConfirmation
    /\ rpc' = IF d.res.kind = "panic" THEN "panicked" ELSE "done"
    /\ panicked' = (d.res.kind = "panic")
    /\ ids' = d.ids
    /\ expired' = d.expired
    /\ UNCHANGED <<capacity, result, call, stale, last>>

\* a frame comes in while the receive waits
FrameArrives ==
    /\ rpc = "waiting"
    /\ \E f \in Frames(rrole), ack_ok \in BOOLEAN : Handle(f, ack_ok)
    /\ UNCHANGED <<rrole, rprefix, rtimeout, relapsed>>
    /\ UNCHANGED <<histVars, scriptVars, writerVars, streamVars, uriVars,
                   auxVars>>

\* the result is handed to the caller
ReturnResult ==
    /\ rpc = "done"
    /\ rpc' = "idle"
    /\ UNCHANGED <<rrole, rprefix, rtimeout, relapsed, rframe, rresult, rack>>
    /\ UNCHANGED <<filterVars, histVars, scriptVars, writerVars, streamVars,
                   uriVars, auxVars>>

NextReader ==
    \/ StartReceive
    \/ Tick
    \/ TimeoutExpires
    \/ FrameArrives
    \/ ReturnResult

SpecReader == InitReader /\ [][NextReader]_vars

\* the clock runs and the socket honours its receive timeout
SpecReaderLive ==
    /\ InitReader
    /\ [][NextReader]_vars
    /\ WF_vars(Tick)
    /\ WF_vars(TimeoutExpires)

(***************************************************************************)
(* SpecStream: one writer sends snum data messages and an end of stream on *)
(* Topic1 to one connected reader                                          *)
(***************************************************************************)
\* the reader role a writer role talks to
PeerRole(role) ==
    CASE role = "Pub" -> "Sub"
      [] role = "Dealer" -> "Router"
      [] role = "Req" -> "Rep"

\* the routing id a Router sees for the Dealer
DealerId == <<1>>

StreamPrefixSpecs == PrefixSpecs \cup {SourceId(Topic2)}

\* the frame the writer sends as its k-th: data, then the end of stream
StreamFrame(k) ==
    [routing_id |-> IF wrole = "Dealer" THEN DealerId ELSE None,
     topic |-> Topic1,
     kind |-> IF k <= snum THEN "data" ELSE "eos",
     seq |-> k]

InitStream ==
    /\ wrole \in WriterRoles
    /\ rrole = PeerRole(wrole)
    /\ rprefix \in StreamPrefixSpecs
    /\ shwm \in 1..MaxHwm
    /\ snum \in 0..MaxMsgs
    /\ sposted = 0
    /\ wire = <<>>
    /\ slog = <<>>
    /\ rtimeout = 1
    /\ rpc = "idle"
    /\ relapsed = 0
    /\ rframe = NoFrame
    /\ rresult = NoResult
    /\ rack = NoConfirmation
    /\ wsend_retries = 0
    /\ wreceive_retries = 0
    /\ wpc = "idle"
    /\ wis_eos = FALSE
    /\ wsend_spent = 0
    /\ wreceive_spent = 0
    /\ wwaited = FALSE
    /\ wresult = "none"
    /\ wtrace = <<>>
    /\ FilterUnused
    /\ ScriptUnused
    /\ UriUnused
    /\ AuxUnused

\* a queue that hands out its newest frame first
DeliverNewestFirst(w, f) == <<f>> \o w

\* the socket pair queues a frame behind the frames already in flight
Deliver(w, f) == Append(w, f)

\* the writer's next send succeeds.  A Request socket sends again only
\* after its previous frame was taken; a Dealer socket does not take a
\* frame while the high-water mark is reached; a Publisher socket takes
\* it and drops it.
Post ==
    /\ sposted < snum + 1
    /\ wrole = "Req" => wire = <<>>
    /\ wrole = "Dealer" => Len(wire) < shwm
    /\ sposted' = sposted + 1
    /\ wire' = IF Len(wire) < shwm
               THEN Deliver(wire, StreamFrame(sposted + 1))
               ELSE wire
    /\ UNCHANGED <<snum, shwm, slog, readerVars, uriVars, auxVars>>
    /\ UNCHANGED <<filterVars, histVars, scriptVars, writerVars>>

\* a receive call of the reader takes the oldest frame in flight
StreamReceive ==
    /\ ~panicked
    /\ wire # <<>>
    /\ \E ack_ok \in BOOLEAN : Handle(Head(wire), ack_ok)
    /\ wire' = Tail(wire)
    /\ slog' = IF rresult'.kind \in {"Message", "EndOfStream"}
               THEN Append(slog, rresult')
               ELSE slog
    /\ UNCHANGED <<rrole, rprefix, rtimeout, relapsed>>
    /\ UNCHANGED <<snum, shwm, sposted, uriVars, auxVars>>
    /\ UNCHANGED <<histVars, scriptVars, writerVars>>

\* a receive call of the reader finds nothing in flight
StreamTimeout ==
    /\ ~panicked
    /\ wire = <<>>
    /\ rresult.kind # "Timeout"
    /\ rresult' = ReaderResult("Timeout", NoFrame)
    /\ rframe' = NoFrame
    /\ rack' = NoConfirmation
    /\ rpc' = "done"
    /\ UNCHANGED <<rrole, rprefix, rtimeout, relapsed>>
    /\ UNCHANGED <<streamVars, uriVars, auxVars>>
    /\ UNCHANGED <<filterVars, histVars, scriptVars, writerVars>>

NextStream ==
    \/ Post
    \/ StreamReceive
    \/ StreamTimeout

SpecStream == InitStream /\ [][NextStream]_vars

(***************************************************************************)
(* SpecRoundTrip: a descriptor is formatted and the string is parsed       *)
(***************************************************************************)
\* the word that names a socket type in a uri
RoleWord(type) ==
    CASE type = "Sub" -> "sub"
      [] type = "Router" -> "router"
      [] type = "Rep" -> "rep"
      [] type = "Pub" -> "pub"
      [] type = "Dealer" -> "dealer"
      [] type = "Req" -> "req"

\* the word that names a direction in a uri
DirWord(bind) == IF bind THEN "bind" ELSE "connect"

\* [role+direction:]endpoint[:source]
format(d) ==
    (IF d.socket_type = NoneOpt THEN <<>>
     ELSE <<RoleWord(d.socket_type[1].type), "+", DirWord(d.bind[1]), ":">>)
    \o d.endpoint
    \o (IF d.source = NoneOpt THEN <<>> ELSE <<":">> \o d.source[1])

\* ZmqSocketUri
ZmqSocketUri(endpoint, bind, socket_type, source) ==
    [endpoint |-> endpoint, bind |-> bind, socket_type |-> socket_type,
     source |-> source]

\* addresses of [^:]+, one of them a keyword of the patterns
DescAddress == {<<"x">>, <<"/", "x", "/", "1">>, <<"pub">>}
DescEndpoints ==
    {<<sch, ":", "/", "/">> \o a : sch \in SchemeWords, a \in DescAddress}
\* sources of .+, with colons of their own and with a uri in them
DescSources == {<<"1">>, <<"x", ":", "1">>, <<"tcp", ":", "/", "/", "x">>}

\* the syntactically valid descriptors: an endpoint, role and direction
\* together or not at all, a source only with a writer role
Descs ==
    {ZmqSocketUri(e, NoneOpt, NoneOpt, NoneOpt) : e \in DescEndpoints}
    \cup
    {ZmqSocketUri(x[1], Some(x[2]), Some(SocketTypeOf(x[3])), NoneOpt) :
        x \in DescEndpoints \X BOOLEAN \X RoleWords}
    \cup
    {ZmqSocketUri(x[1], Some(x[2]), Some(SocketTypeOf(x[3])), Some(x[4])) :
        x \in DescEndpoints \X BOOLEAN \X WriterWords \X DescSources}

InitRoundTrip ==
    /\ desc \in Descs
    /\ uri = <<>>
    /\ parsed = NotParsed
    /\ MatchUnused
    /\ MockUnused
    /\ FsUnused
    /\ FrameUnused
    /\ FilterUnused
    /\ ScriptUnused
    /\ WriterUnused
    /\ ReaderUnused
    /\ StreamUnused

\* let uri = format(desc)
Format ==
    /\ uri = <<>>
    /\ uri' = format(desc)
    /\ UNCHANGED <<parsed, readerVars, streamVars, auxVars>>
    /\ UNCHANGED <<filterVars, histVars, scriptVars, writerVars>>

\* let parsed = parse_zmq_socket_uri(uri)
ParseFormatted ==
    /\ uri # <<>>
    /\ ParseUri

NextRoundTrip ==
    \/ Format
    \/ ParseFormatted

SpecRoundTrip == InitRoundTrip /\ [][NextRoundTrip]_vars

(***************************************************************************)
(* SpecMatch: TopicPrefixSpec::matches on one spec and one topic           *)
(***************************************************************************)
\* u8 values of the strings
Bytes == {1, 2}

\* the byte strings of at most MaxTopicLen bytes
ByteStrings == UNION {[1..n -> Bytes] : n \in 0..MaxTopicLen}

\* source_id(s), prefix(s) and none()
MatchSpecs ==
    {SourceId(s) : s \in ByteStrings} \cup {Prefix(s) : s \in ByteStrings}
    \cup {PrefixNone}

InitMatch ==
    /\ tspec \in MatchSpecs
    /\ ttopic \in ByteStrings
    /\ tmatched = NotMatched
    /\ desc = NoDesc
    /\ MockUnused
    /\ FsUnused
    /\ FrameUnused
    /\ FilterUnused
    /\ ScriptUnused
    /\ WriterUnused
    /\ ReaderUnused
    /\ StreamUnused
    /\ UriUnused

\* let matched = spec.matches(topic)
Match ==
    /\ ~tmatched.called
    /\ tmatched' = [called |-> TRUE, ret |-> matches(tspec, ttopic)]
    /\ UNCHANGED <<tspec, ttopic, desc, mockVars, fsVars, frameVars>>
    /\ UNCHANGED <<readerVars, streamVars, uriVars>>
    /\ UNCHANGED <<filterVars, histVars, scriptVars, writerVars>>

NextMatch == Match

SpecMatch == InitMatch /\ [][NextMatch]_vars

(***************************************************************************)
(* SpecMock: Socket::MockSocket(data, c) under send, send_multipart,       *)
(* recv_multipart, take_buffer, bind, connect and the option setters       *)
(***************************************************************************)
\* the frames handed to the socket
MockFrames == {<<1>>, <<2>>}

\* parts: &[&[u8]]
MockParts == {<<>>, <<<<1>>>>, <<<<2>>>>, <<<<1>>, <<2>>>>}

\* the responders C: the one that leaves the buffer alone, one that puts
\* the reply of a peer in its place, one that adds the reply behind the
\* frames, one that empties the buffer
Responders == {"Noop", "Reply", "Append", "Drop"}

\* c.fix(data): the buffer as the responder leaves it
fix(c, data) ==
    CASE c = "Noop" -> data
      [] c = "Reply" -> <<CONFIRMATION_MESSAGE>>
      [] c = "Append" -> Append(data, CONFIRMATION_MESSAGE)
      [] c = "Drop" -> <<>>

\* bind, connect and the setters, which answer Ok(()) on the mock
MockSetters ==
    {"set_rcvhwm", "set_sndhwm", "set_rcvtimeo", "set_sndtimeo",
     "set_linger", "set_subscribe", "bind", "connect"}

\* a buffer that keeps its old frames in front of the new ones
ExtendOnly(data, parts) == data \o parts

\* data.clear(); data.extend(parts)
ClearExtend(data, parts) == parts

\* mem::take(data): what stays in the buffer
TakeLeaves(data) == <<>>

\* one finished call: its name, the frames it was given, whether it
\* returned Ok, and the frames it returned
MockCall(op, parts, ok, ret) ==
    [op |-> op, parts |-> parts, ok |-> ok, ret |-> ret]

InitMock ==
    /\ mresp \in Responders
    /\ mdata = <<>>
    /\ mfix = <<>>
    /\ mlog = <<>>
    /\ desc = NoDesc
    /\ MatchUnused
    /\ FsUnused
    /\ FrameUnused
    /\ FilterUnused
    /\ ScriptUnused
    /\ WriterUnused
    /\ ReaderUnused
    /\ StreamUnused
    /\ UriUnused

\* what no call on the mock socket touches
MockLeaves ==
    /\ UNCHANGED <<mresp, desc, matchVars, fsVars, frameVars>>
    /\ UNCHANGED <<readerVars, streamVars, uriVars>>
    /\ UNCHANGED <<filterVars, histVars, scriptVars, writerVars>>

\* Socket::send_multipart(parts, flags)
MockSendMultipart ==
    /\ Len(mlog) < MaxOps
    /\ \E parts \in MockParts :
        LET data == ClearExtend(mdata, parts) IN
        /\ mfix' = Append(mfix, data)
        /\ mdata' = fix(mresp, data)
        /\ mlog' = Append(mlog, MockCall("send_multipart", parts, TRUE, <<>>))
    /\ MockLeaves

\* Socket::send(m, flags)
MockSend ==
    /\ Len(mlog) < MaxOps
    /\ \E m \in MockFrames :
        LET data == ClearExtend(mdata, <<m>>) IN
        /\ mfix' = Append(mfix, data)
        /\ mdata' = fix(mresp, data)
        /\ mlog' = Append(mlog, MockCall("send", <<m>>, TRUE, <<>>))
    /\ MockLeaves

\* Socket::recv_multipart(flags)
MockRecvMultipart ==
    /\ Len(mlog) < MaxOps
    /\ mdata' = TakeLeaves(mdata)
    /\ mlog' = Append(mlog, MockCall("recv_multipart", <<>>, TRUE, mdata))
    /\ UNCHANGED mfix
    /\ MockLeaves

\* Socket::take_buffer()
MockTakeBuffer ==
    /\ Len(mlog) < MaxOps
    /\ mdata' = TakeLeaves(mdata)
    /\ mlog' = Append(mlog, MockCall("take_buffer", <<>>, TRUE, mdata))
    /\ UNCHANGED mfix
    /\ MockLeaves

\* Socket::bind / connect / set_*
MockSet ==
    /\ Len(mlog) < MaxOps
    /\ \E op \in MockSetters :
        mlog' = Append(mlog, MockCall(op, <<>>, TRUE, <<>>))
    /\ UNCHANGED <<mdata, mfix>>
    /\ MockLeaves

NextMock ==
    \/ MockSendMultipart
    \/ MockSend
    \/ MockRecvMultipart
    \/ MockTakeBuffer
    \/ MockSet

SpecMock == InitMock /\ [][NextMock]_vars

(***************************************************************************)
(* SpecIpc: create_ipc_dirs and set_ipc_permissions around the bind of an  *)
(* endpoint, over a small file system                                      *)
(*                                                                         *)
(* A path is the sequence of its components, <<>> being "/".  An endpoint  *)
(* is a string of tokens as in SpecUri, its path absolute.                 *)
(***************************************************************************)
\* the paths of the file system
FsPaths ==
    {<<>>, <<"a">>, <<"a", "b">>, <<"a", "b", "s">>, <<"a", "s">>, <<"s">>}

\* what is at a path: nothing, a directory, or a file (a socket file is one)
NoEntry == [kind |-> "none", mode |-> 0]
DirEntry == [kind |-> "dir", mode |-> 493]
FileEntry == [kind |-> "file", mode |-> 420]

\* path without its last component
Parent(p) == SubSeq(p, 1, Len(p) - 1)

\* the file systems: "/" is a directory, and an entry exists only in a
\* directory
FileSystems ==
    {f \in [FsPaths -> {NoEntry, DirEntry, FileEntry}] :
        /\ f[<<>>] = DirEntry
        /\ \A p \in FsPaths \ {<<>>} :
               f[p] # NoEntry => f[Parent(p)] = DirEntry}

\* the string of an absolute path: "/" for the root, "/a/b" for <<a, b>>
RECURSIVE PathString(_)
PathString(p) ==
    IF p = <<>> THEN <<>>
    ELSE PathString(Parent(p)) \o <<"/", p[Len(p)]>>

\* the endpoints handed to Reader::new / Writer::new
Endpoints ==
    {<<"ipc", ":", "/", "/">>, <<"ipc", ":", "/", "/", "/">>,
     <<"tcp", ":", "/", "/", "a">>}
    \cup {<<"ipc", ":", "/", "/">> \o PathString(p) : p \in FsPaths \ {<<>>}}

\* IPC_PERMISSIONS = 0o777
IPC_PERMISSIONS == 511

\* the permission bits a configuration asks for: none, 0o777, 0o600
Permissions == {NoneOpt, Some(IPC_PERMISSIONS), Some(384)}

\* endpoint.strip_prefix("ipc://")
StripIpcPrefix(e) ==
    IF Len(e) >= 4 /\ SubSeq(e, 1, 4) = <<"ipc", ":", "/", "/">>
    THEN Some(SubSeq(e, 5, Len(e)))
    ELSE NoneOpt

\* std::path::Path::new(s): the components of the absolute path s
RECURSIVE Components(_)
Components(s) ==
    IF s = <<>> THEN <<>>
    ELSE IF Head(s) = "/" THEN Components(Tail(s))
    ELSE <<Head(s)>> \o Components(Tail(s))

\* path.exists() / path.is_dir()
Exists(f, p) == p \in DOMAIN f /\ f[p].kind # "none"
IsDir(f, p) == p \in DOMAIN f /\ f[p].kind = "dir"

\* mkdir(p): the error, or the file system with the new directory
Mkdir(f, p) ==
    IF Exists(f, p) THEN [ret |-> "AlreadyExists", fs |-> f]
    ELSE IF ~Exists(f, Parent(p)) THEN [ret |-> "NotFound", fs |-> f]
    ELSE IF ~IsDir(f, Parent(p)) THEN [ret |-> "NotADirectory", fs |-> f]
    ELSE [ret |-> "ok", fs |-> [f EXCEPT ![p] = DirEntry]]

\* std::fs::create_dir_all(p)
RECURSIVE create_dir_all(_, _)
create_dir_all(f, p) ==
    IF p = <<>> THEN [ret |-> "ok", fs |-> f]
    ELSE LET m == Mkdir(f, p) IN
         IF m.ret = "ok" THEN m
         ELSE IF m.ret = "NotFound"
         THEN LET r == create_dir_all(f, Parent(p)) IN
              IF r.ret = "ok" THEN Mkdir(r.fs, p) ELSE r
         ELSE IF IsDir(f, p) THEN [ret |-> "ok", fs |-> f]
         ELSE m

\* the directory made is the path itself
PathItself(path) == path

\* path.parent().unwrap()
ParentToCreate(path) == Parent(path)

\* what a helper returns: Ok(()), an error, or a panic that unwinds
IpcOk(f) == [ret |-> "ok", fs |-> f]
IpcErr(f) == [ret |-> "err", fs |-> f]
IpcPanic(f) == [ret |-> "panic", fs |-> f]

create_ipc_dirs(f, e) ==
    LET stripped == StripIpcPrefix(e) IN
    IF stripped = NoneOpt THEN IpcPanic(f)
    ELSE LET endpoint == stripped[1]
             path == Components(endpoint)
         IN IF endpoint = <<>> THEN IpcErr(f)
            ELSE IF Exists(f, path) /\ IsDir(f, path) THEN IpcErr(f)
            ELSE IF path = <<>> THEN IpcPanic(f)
            ELSE LET r == create_dir_all(f, ParentToCreate(path)) IN
                 IF r.ret = "ok" THEN IpcOk(r.fs) ELSE IpcErr(r.fs)

\* a mode that keeps the bits above the permission bits
FromModeWide(permissions) == permissions + 4096

\* std::fs::Permissions::from_mode(permissions), as chmod applies it
FromMode(permissions) == permissions % 4096

set_ipc_permissions(f, e, permissions) ==
    LET stripped == StripIpcPrefix(e) IN
    IF stripped = NoneOpt THEN IpcPanic(f)
    ELSE LET endpoint == stripped[1]
             path == Components(endpoint)
         IN IF endpoint = <<>> THEN IpcErr(f)
            ELSE IF ~Exists(f, path) THEN IpcErr(f)
            ELSE IpcOk([f EXCEPT ![path].mode = FromMode(permissions)])

\* every endpoint is taken for an ipc endpoint
IsIpcAlways(e) == TRUE

\* endpoint.starts_with("ipc://")
IsIpc(e) == StripIpcPrefix(e) # NoneOpt

\* the outcome of a step
IpcReturn(op, ret) == [op |-> op, ret |-> ret]

InitIpc ==
    /\ fs \in FileSystems
    /\ fbefore = fs
    /\ fendpoint \in Endpoints
    /\ fperm \in Permissions
    /\ fpc = "new"
    /\ fret = IpcReturn("none", "ok")
    /\ desc = NoDesc
    /\ MatchUnused
    /\ MockUnused
    /\ FrameUnused
    /\ FilterUnused
    /\ ScriptUnused
    /\ WriterUnused
    /\ ReaderUnused
    /\ StreamUnused
    /\ UriUnused

\* what no step on the file system touches
IpcLeaves ==
    /\ UNCHANGED <<fendpoint, fperm, desc, matchVars, mockVars, frameVars>>
    /\ UNCHANGED <<readerVars, streamVars, uriVars>>
    /\ UNCHANGED <<filterVars, histVars, scriptVars, writerVars>>

\* before the bind: create_ipc_dirs for an ipc:// endpoint
PrepareBind ==
    /\ fpc = "new"
    /\ fbefore' = fs
    /\ IF IsIpc(fendpoint)
       THEN LET r == create_ipc_dirs(fs, fendpoint) IN
            /\ fs' = r.fs
            /\ fret' = IpcReturn("create_ipc_dirs", r.ret)
            /\ fpc' = IF r.ret = "ok" THEN "prepared" ELSE "failed"
       ELSE /\ fs' = fs
            /\ fret' = IpcReturn("none", "ok")
            /\ fpc' = "prepared"
    /\ IpcLeaves

\* socket.bind(endpoint): a ZeroMQ socket leaves a socket file at the path
\* of an ipc:// endpoint, the mock socket leaves nothing
Bind ==
    /\ fpc = "prepared"
    /\ fbefore' = fs
    /\ \E zmq \in BOOLEAN :
        LET path == Components(StripIpcPrefix(fendpoint)[1]) IN
        fs' = IF zmq /\ IsIpc(fendpoint) /\ ~Exists(fs, path)
              THEN [fs EXCEPT ![path] = FileEntry]
              ELSE fs
    /\ fret' = IpcReturn("bind", "ok")
    /\ fpc' = "bound"
    /\ IpcLeaves

\* after the bind: set_ipc_permissions for an ipc:// endpoint when
\* permission bits are configured
FixPermissions ==
    /\ fpc = "bound"
    /\ fbefore' = fs
    /\ IF IsIpc(fendpoint) /\ fperm # NoneOpt
       THEN LET r == set_ipc_permissions(fs, fendpoint, fperm[1]) IN
            /\ fs' = r.fs
            /\ fret' = IpcReturn("set_ipc_permissions", r.ret)
            /\ fpc' = IF r.ret = "ok" THEN "done" ELSE "failed"
       ELSE /\ fs' = fs
            /\ fret' = IpcReturn("none", "ok")
            /\ fpc' = "done"
    /\ IpcLeaves

NextIpc ==
    \/ PrepareBind
    \/ Bind
    \/ FixPermissions

SpecIpc == InitIpc /\ [][NextIpc]_vars

(***************************************************************************)
(* VideoFrame: the objects of a frame                                      *)
(*                                                                         *)
(* An object lives behind an Arc<Mutex<InnerObject>>: heap maps the        *)
(* address of each live one to its value.  The frame holds addresses, in   *)
(* order, and so do the handles (Object) the caller got from the frame.    *)
(* An address that neither the frame nor a handle holds is dropped.        *)
(* Addresses carry no meaning of their own: after each call they are       *)
(* renumbered in the order in which the frame and then the handles hold    *)
(* them.                                                                   *)
(***************************************************************************)
\* addresses of objects: one for each object of the frame and each handle
NumRefs == MaxObjects + MaxHandles
Refs == 1..NumRefs

\* no object at an address
NoObject == [id |-> 0 - 1, creator |-> "", label |-> ""]

\* the fields of InnerObject that the frame reads
InnerObject(id, creator, label) ==
    [id |-> id, creator |-> creator, label |-> label]

\* the creators and labels of the objects of gen_frame
Creators == {"test", "test2"}
Labels == {"test", "test2"}
\* the ids given to objects
ObjectIds == {0, 1}

\* creator: Option<String> and label: Option<String> of a query
ArgCreators == {NoneOpt, Some("test2")}
ArgLabels == {NoneOpt, Some("test2")}

\* ids: Vec<i64>
ArgIds == SUBSET ObjectIds

\* the values of the objects the frame holds, in order
ObjectsOf(objs, hp) == [i \in 1..Len(objs) |-> hp[objs[i]]]

\* s without the repetitions of its elements
RECURSIVE Dedup(_)
Dedup(s) ==
    IF s = <<>> THEN <<>>
    ELSE LET d == Dedup(SubSeq(s, 1, Len(s) - 1)) IN
         IF s[Len(s)] \in SeqToSet(d) THEN d ELSE Append(d, s[Len(s)])

\* the numbers of S in rising order
RECURSIVE Sorted(_)
Sorted(S) ==
    IF S = {} THEN <<>>
    ELSE LET m == CHOOSE x \in S : \A y \in S : x <= y IN
         <<m>> \o Sorted(S \ {m})

\* the addresses still held once the frame holds objs and the caller h,
\* the frame's first
Held(objs, h) == Dedup(objs) \o Sorted(h \ SeqToSet(objs))

\* the number of the address r among the held ones
Renumber(held, r) == CHOOSE i \in 1..Len(held) : held[i] = r

\* the objects behind the held addresses, renumbered; the others dropped
Collect(hp, held) ==
    [r \in Refs |-> IF r <= Len(held) THEN hp[held[r]] ELSE NoObject]

\* the k lowest addresses outside used, in order: Arc::new
RECURSIVE FreshRefs(_, _)
FreshRefs(k, used) ==
    IF k = 0 THEN <<>>
    ELSE LET r == CHOOSE x \in Refs \ used :
                      \A y \in Refs \ used : x <= y
         IN <<r>> \o FreshRefs(k - 1, used \cup {r})

\* the filter closure of access_objects
AccessFilter(o, negated, creator, label) ==
    LET creator_match == IF creator # NoneOpt THEN o.creator = creator[1]
                         ELSE TRUE
        label_match == IF label # NoneOpt THEN o.label = label[1]
                       ELSE TRUE
    IN (creator_match /\ label_match) # negated

\* VideoFrame::access_objects: the handles it returns
access_objects(objs, hp, negated, creator, label) ==
    SelectSeq(objs, LAMBDA r : AccessFilter(hp[r], negated, creator, label))

\* a retain closure that takes no notice of negated
RetainIgnoresNegated(o, negated, creator, label) ==
    ~AccessFilter(o, FALSE, creator, label)

\* the retain closure of delete_objects
DeleteRetain(o, negated, creator, label) ==
    LET creator_match == IF creator # NoneOpt THEN o.creator = creator[1]
                         ELSE TRUE
        label_match == IF label # NoneOpt THEN o.label = label[1]
                       ELSE TRUE
    IN ~((creator_match /\ label_match) # negated)

\* a save that copies no object
SaveNothing(objs, hp) == <<>>

\* InnerVideoFrame::prepare_before_save: the new offline_objects
prepare_before_save(objs, hp) == [i \in 1..Len(objs) |-> hp[objs[i]]]

\* no snapshot taken
NoSnapshot == [taken |-> FALSE, objects |-> <<>>, changed |-> FALSE]

\* the last call on the frame: delete_objects, restore, or another call
FrameCall(op) ==
    [op |-> IF op \in {"delete_objects", "restore", "new"} THEN op
            ELSE "call"]

\* what no call on the frame touches
FrameLeaves ==
    /\ UNCHANGED <<desc, matchVars, mockVars, fsVars>>
    /\ UNCHANGED <<readerVars, streamVars, uriVars>>
    /\ UNCHANGED <<filterVars, histVars, scriptVars, writerVars>>

\* the frame holds objs from now on
Holds(objs, hp, h) ==
    LET held == Held(objs, h) IN
    /\ resident_objects' = [i \in 1..Len(objs) |-> Renumber(held, objs[i])]
    /\ handles' = {Renumber(held, r) : r \in h}
    /\ heap' = Collect(hp, held)

\* VideoFrame::access_objects(negated, creator, label); the caller keeps
\* one of the handles or none
AccessObjectsWith(negated, creator, label) ==
    LET ret == access_objects(resident_objects, heap, negated, creator,
                              label)
    IN /\ \E keep \in {{}} \cup {{r} : r \in SeqToSet(ret)} :
            /\ Cardinality(handles \cup keep) <= MaxHandles
            /\ Holds(resident_objects, heap, handles \cup keep)
       /\ flast' = FrameCall("access_objects")
       /\ UNCHANGED <<offline_objects, snapped>>
       /\ FrameLeaves

AccessObjects ==
    \E negated \in BOOLEAN, creator \in ArgCreators, label \in ArgLabels :
        AccessObjectsWith(negated, creator, label)

\* VideoFrame::delete_objects(negated, creator, label)
DeleteObjectsWith(negated, creator, label) ==
    LET objs == SelectSeq(resident_objects,
                         LAMBDA r : DeleteRetain(heap[r], negated, creator,
                                                 label))
    IN /\ flast' = FrameCall("delete_objects")
       /\ Holds(objs, heap, handles)
       /\ UNCHANGED <<offline_objects, snapped>>
       /\ FrameLeaves

DeleteObjects ==
    \E negated \in BOOLEAN, creator \in ArgCreators, label \in ArgLabels :
        DeleteObjectsWith(negated, creator, label)

\* VideoFrame::delete_objects_by_ids(ids)
DeleteObjectsByIds ==
    \E idv \in ArgIds :
        LET objs == SelectSeq(resident_objects,
                             LAMBDA r : ~(heap[r].id \in idv))
        IN /\ Holds(objs, heap, handles)
           /\ flast' = FrameCall("delete_objects_by_ids")
           /\ UNCHANGED <<offline_objects, snapped>>
           /\ FrameLeaves

\* VideoFrame::clear_objects()
ClearObjects ==
    /\ Holds(<<>>, heap, handles)
    /\ flast' = FrameCall("clear_objects")
    /\ UNCHANGED <<offline_objects, snapped>>
    /\ FrameLeaves

\* VideoFrame::add_object(object) with an object made by the caller
AddObject ==
    /\ Len(resident_objects) < MaxObjects
    /\ \E id \in ObjectIds :
        LET r == FreshRefs(1, SeqToSet(resident_objects) \cup handles)[1]
        IN Holds(Append(resident_objects, r),
                 [heap EXCEPT ![r] = InnerObject(id, "test", "test")],
                 handles)
    /\ flast' = FrameCall("add_object")
    /\ UNCHANGED <<offline_objects, snapped>>
    /\ FrameLeaves

\* VideoFrame::add_object(object) with a clone of a handle the caller holds
AddHandle ==
    /\ Len(resident_objects) < MaxObjects
    /\ \E h \in handles :
        Holds(Append(resident_objects, h), heap, handles)
    /\ flast' = FrameCall("add_object")
    /\ UNCHANGED <<offline_objects, snapped>>
    /\ FrameLeaves

\* Object::set_id(id) through a handle
SetId ==
    /\ \E h \in handles, id \in ObjectIds :
        /\ heap[h].id # id
        /\ Holds(resident_objects, [heap EXCEPT ![h].id = id], handles)
    /\ flast' = FrameCall("set_id")
    /\ UNCHANGED <<offline_objects, snapped>>
    /\ FrameLeaves

\* the caller drops a handle
DropHandle ==
    /\ \E h \in handles : Holds(resident_objects, heap, handles \ {h})
    /\ flast' = FrameCall("drop")
    /\ UNCHANGED <<offline_objects, snapped>>
    /\ FrameLeaves

\* VideoFrame::snapshot()
Snapshot ==
    /\ offline_objects' = prepare_before_save(resident_objects, heap)
    /\ snapped' = [taken |-> TRUE,
                   objects |-> ObjectsOf(resident_objects, heap),
                   changed |-> FALSE]
    /\ flast' = FrameCall("snapshot")
    /\ UNCHANGED <<resident_objects, handles, heap>>
    /\ FrameLeaves

\* InnerVideoFrame::prepare_after_load: the addresses of the new
\* resident_objects, one new Arc for each of the offline objects
prepare_after_load(off, h) == FreshRefs(Len(off), h)

\* VideoFrame::restore(): the objects the frame held are let go, each
\* new address holds a clone of its offline object
Restore ==
    LET objs == prepare_after_load(offline_objects, handles)
    IN /\ Holds(objs,
                [r \in Refs |->
                    IF \E i \in 1..Len(objs) : objs[i] = r
                    THEN offline_objects[CHOOSE i \in 1..Len(objs) :
                                             objs[i] = r]
                    ELSE heap[r]],
                handles)
       /\ snapped' = [snapped EXCEPT
                         !.changed = (ObjectsOf(resident_objects, heap)
                                          # snapped.objects)]
       /\ flast' = FrameCall("restore")
       /\ UNCHANGED offline_objects
       /\ FrameLeaves

\* ---- SpecFrame: a frame under snapshot, changes and restore ----
FrameOthersUnused ==
    /\ desc = NoDesc
    /\ MatchUnused
    /\ MockUnused
    /\ FsUnused
    /\ FilterUnused
    /\ ScriptUnused
    /\ WriterUnused
    /\ ReaderUnused
    /\ StreamUnused
    /\ UriUnused

InitFrame ==
    /\ heap = [r \in Refs |-> NoObject]
    /\ resident_objects = <<>>
    /\ offline_objects = <<>>
    /\ handles = {}
    /\ snapped = NoSnapshot
    /\ flast = FrameCall("new")
    /\ FrameOthersUnused

NextFrame ==
    \/ AddObject
    \/ AddHandle
    \/ AccessObjects
    \/ SetId
    \/ DropHandle
    \/ DeleteObjects
    \/ DeleteObjectsByIds
    \/ ClearObjects
    \/ Snapshot
    \/ Restore

SpecFrame == InitFrame /\ [][NextFrame]_vars

\* ---- SpecSelect: access_objects and delete_objects on a given frame ----
\* the frames: up to MaxObjects + 1 objects of all creators and labels, the
\* id of an object being its index as in gen_frame
InitSelect ==
    /\ \E n \in 0..(MaxObjects + 1) :
        /\ resident_objects = [i \in 1..n |-> i]
        /\ \E c \in [1..n -> Creators], l \in [1..n -> Labels] :
            heap = [r \in Refs |->
                       IF r <= n THEN InnerObject(r - 1, c[r], l[r])
                       ELSE NoObject]
    /\ offline_objects = <<>>
    /\ handles = {}
    /\ snapped = NoSnapshot
    /\ flast = FrameCall("new")
    /\ FrameOthersUnused

NextSelect ==
    \/ AccessObjects
    \/ DeleteObjects

SpecSelect == InitSelect /\ [][NextSelect]_vars

(***************************************************************************)
(* Properties of the routing id filter                                     *)
(***************************************************************************)
\* the step is a call of allow with these arguments
Called(topic, routing_id) ==
    /\ ~panicked
    /\ call' = [topic |-> topic, routing_id |-> routing_id]

HasCurrent(topic) == topic \in DOMAIN ids

\* C1: once id A has been replaced as the current id of topic T, every
\* later allow(T, A) returns false for as long as (T, A) has stayed in the
\* expired set.
C1_StaleStaysDenied ==
    [][\A p \in stale : Called(p[1], p[2]) =>
           /\ result' = "false"
           /\ p \in stale'
           /\ ids' = ids]_vars

\* C1 witness: a replaced id was offered again and denied
C1_Witness ==
    /\ result = "false"
    /\ <<call.topic, call.routing_id>> \in stale

\* C2: no pair (topic, id) is at the same time the current routing id of
\* its topic and a member of the expired set.
C2_CurrentNeverExpired ==
    \A t \in DOMAIN ids : ~Contains(expired, <<t, ids[t]>>)

\* C3: allow(T, X) for a topic with current id P, X # P of any length and
\* (T, X) not expired returns true, makes X current and expires (T, P).
C3_NewIdReplaces ==
    [][\A t \in Topics, x \in RoutingIds :
           (/\ Called(t, x)
            /\ HasCurrent(t)
            /\ x # ids[t]
            /\ ~Contains(expired, <<t, x>>))
           => /\ result' = "true"
              /\ ids'[t] = x
              /\ Contains(expired', <<t, ids[t]>>)]_vars

\* C4: on a fresh filter of capacity 2 the five calls of each topic return
\* true, true, true, false, true whatever the interleaving of the topics.
C4_ScriptResults ==
    \A t \in Topics : res[t] = SubSeq(Expected, 1, pc[t])

\* C4 witness: both topics have run all five calls
C4_Witness ==
    /\ \A t \in Topics : pc[t] = ScriptLen /\ res[t] = Expected
    /\ script[Topic1][2] = script[Topic2][3]

\* C5: the expired set never holds more than capacity pairs, and an identity
\* change on a full expired set evicts its oldest entry.
C5_BoundedLru ==
    [][/\ Len(expired') <= capacity
       /\ \A t \in DOMAIN ids :
             (ids'[t] # ids[t] /\ Len(expired) = capacity)
             => expired' = Append(Tail(expired), <<t, ids[t]>>)]_vars

\* C5 witness: the expired set is full and a pair has been pushed out of it
C5_Witness ==
    /\ Len(expired) = capacity
    /\ age = capacity
    /\ ~Contains(expired, watched)

\* C6: on a single topic, the id expired first is still denied after
\* capacity identity switches and is allowed and made current again after
\* capacity + 1 switches.
C6_OldestReadmitted ==
    [][(/\ Called(Topic1, firstExpired[Topic1])
        /\ firstExpired[Topic1] # None)
       => /\ switches[Topic1] \in 1..capacity => result' = "false"
          /\ switches[Topic1] = capacity + 1 =>
                 result' = "true" /\ ids'[Topic1] = firstExpired[Topic1]]_vars

\* C6 witness: the first expired id came back after capacity + 1 switches
C6_Witness ==
    /\ firstExpired[Topic1] # None
    /\ call = [topic |-> Topic1, routing_id |-> firstExpired[Topic1]]
    /\ result = "true"
    /\ switches[Topic1] = capacity + 2
    /\ capacity = MaxCapacity

\* C7: an expired (T, A) is not allowed again before capacity further
\* identity changes (on any topic) have followed the change that expired it.
C7_ReadmittedOnlyAfterN ==
    [][(Called(watched[1], watched[2]) /\ result' = "true" /\ age >= 0)
       => age >= capacity]_vars

\* C7 witness: a pair that had been expired is current again, on a filter
\* that serves a second topic
C7_Witness ==
    /\ result = "true"
    /\ call = [topic |-> watched[1], routing_id |-> watched[2]]
    /\ age = Readmitted
    /\ \E t \in Topics : t # call.topic /\ HasCurrent(t)

\* C8: allow(topic, id) on a topic without current id records id and
\* returns true; allow with the topic's current id returns true.
C8_FirstAndSameAllowed ==
    [][\A t \in Topics, x \in RoutingIds : Called(t, x) =>
           /\ ~HasCurrent(t) => result' = "true" /\ t \in DOMAIN ids' /\ ids'[t] = x
           /\ (HasCurrent(t) /\ ids[t] = x) => result' = "true"]_vars

\* C8 witness: a first id was recorded for a topic (none of its ids expired)
C8_Witness ==
    /\ result = "true"
    /\ call.topic \in DOMAIN ids
    /\ ids[call.topic] = call.routing_id
    /\ \A i \in 1..Len(expired) : expired[i][1] # call.topic

\* C9: allow(topic, None) returns true in every state and changes neither
\* the current ids nor the expired set.
C9_NoneAllowedNoEffect ==
    [][\A t \in Topics : Called(t, None) =>
           /\ result' = "true"
           /\ ids' = ids
           /\ expired' = expired]_vars

\* C9 witness: a call without routing id on a topic that has a current id,
\* next to a topic never seen, with a non-empty expired set
C9_Witness ==
    /\ call.routing_id = None
    /\ result = "true"
    /\ HasCurrent(call.topic)
    /\ expired # <<>>
    /\ \E t \in Topics : ~HasCurrent(t)

(***************************************************************************)
(* Properties of the writer                                                *)
(***************************************************************************)
EosDone == wpc = "done" /\ wis_eos

\* C10 as stated: send_eos awaits the "OK" acknowledgment for every writer
\* role; its result is never the Success that is returned without waiting.
C10_EosAlwaysAwaitsAck ==
    EosDone => wresult.kind # "Success"

\* C10 amended: send_eos awaits the acknowledgment on Dealer and Request
\* writers (Ack or NoAck, never Success); on a Publisher it returns Success
\* without waiting.
C10_EosAwaitsAckUnlessPub ==
    EosDone =>
        /\ wrole \in {"Dealer", "Req"} =>
               /\ wresult.kind # "Success"
               /\ wresult.kind \in {"Ack", "NoAck"} <=> wresult.waited
               /\ wresult.kind = "SendFailed" <=> ~wresult.waited
        /\ wrole = "Pub" =>
               /\ wresult.kind \in {"Success", "SendFailed"}
               /\ ~wresult.waited

\* C10 witness: a Dealer's send_eos came back acknowledged
C10_Witness ==
    /\ EosDone
    /\ wrole = "Dealer"
    /\ wresult.kind = "Ack"
    /\ wresult.waited

\* the last socket outcome of the running call
LastOutcome == wtrace[Len(wtrace)]

\* number of outcomes x among the socket outcomes of the running call
Outcomes(x) == Cardinality({i \in 1..Len(wtrace) : wtrace[i] = x})

DataDone == wpc = "done" /\ ~wis_eos

\* C11: send_message on a Publisher or Dealer writer returns Success, with
\* the send retries spent, as soon as a send attempt succeeds; it never
\* waits for an acknowledgment.
C11_DataSuccessWithoutAck ==
    /\ [][(/\ wpc = "send"
           /\ ~wis_eos
           /\ wrole \in {"Pub", "Dealer"}
           /\ wtrace' = Append(wtrace, "sent"))
          => /\ wpc' = "done"
             /\ wresult'.kind = "Success"
             /\ wresult'.send_retries_spent = Outcomes("would_block")
             /\ ~wresult'.waited]_vars
    /\ [](~wis_eos /\ wrole \in {"Pub", "Dealer"} =>
             /\ wpc # "ack"
             /\ Outcomes("reply") = 0
             /\ Outcomes("timeout") = 0)

\* C11 witness: a Dealer's send_message succeeded on its second attempt
C11_Witness ==
    /\ DataDone
    /\ wrole = "Dealer"
    /\ wtrace = <<"would_block", "sent">>
    /\ wresult.kind = "Success"
    /\ wresult.send_retries_spent = 1

\* C12: send_message on a Request writer returns Ack when the "OK" reply is
\* received and NoAck when the acknowledgment receive retries are
\* exhausted; when the first send and the first receive succeed the Ack
\* reports zero send retries and zero receive retries spent.
C12_RequestAckOrNoAck ==
    (DataDone /\ wrole = "Req") =>
        /\ wresult.kind \in {"Ack", "NoAck", "SendFailed"}
        /\ wresult.kind = "Ack" <=> LastOutcome = "reply"
        /\ wresult.kind = "NoAck" <=>
               /\ LastOutcome = "timeout"
               /\ Outcomes("timeout") = wreceive_retries + 1
        /\ LastOutcome = "timeout" => wresult.kind = "NoAck"
        /\ wtrace = <<"sent", "reply">> =>
               /\ wresult.kind = "Ack"
               /\ wresult.send_retries_spent = 0
               /\ wresult.receive_retries_spent = 0

\* C12 witness: the peer answered the first attempt of a Request writer
\* that is configured with retries
C12_Witness ==
    /\ DataDone
    /\ wrole = "Req"
    /\ wtrace = <<"sent", "reply">>
    /\ wresult.kind = "Ack"
    /\ wsend_retries > 0
    /\ wreceive_retries > 0

\* C13: every result of send_message and send_eos reports at most the
\* configured send retries and at most the configured acknowledgment
\* receive retries, and the counters of a call count the retries of that
\* call only: they start from zero.
C13_RetriesBoundedPerCall ==
    /\ wsend_spent \in 0..wsend_retries
    /\ wreceive_spent \in 0..wreceive_retries
    /\ wpc = "send" /\ wtrace = <<>> =>
           wsend_spent = 0 /\ wreceive_spent = 0
    /\ wpc = "done" =>
           /\ wresult.send_retries_spent =
                  Min(Outcomes("would_block"), wsend_retries)
           /\ wresult.receive_retries_spent =
                  Min(Outcomes("timeout"), wreceive_retries)
           /\ wresult.send_retries_spent <= wsend_retries
           /\ wresult.receive_retries_spent <= wreceive_retries

\* C13 witness: a call gave up with NoAck after spending every retry of
\* both kinds
C13_Witness ==
    /\ wpc = "done"
    /\ wresult.kind = "NoAck"
    /\ wsend_retries = MaxRetries
    /\ wreceive_retries = MaxRetries
    /\ wresult.send_retries_spent = MaxRetries
    /\ wresult.receive_retries_spent = MaxRetries

(***************************************************************************)
(* Properties of the reader                                                *)
(***************************************************************************)
\* the prefix spec admits the topic: SourceId the very bytes, Prefix every
\* topic that starts with them, None every topic
Admits(spec, topic) ==
    \/ spec.kind = "None"
    \/ spec.kind = "SourceId" /\ topic = spec.s
    \/ spec.kind = "Prefix" /\
           \E n \in 0..Len(topic) : SubSeq(topic, 1, n) = spec.s

\* a receive has handled a frame and returns
FrameHandled == rpc = "done" /\ rframe # NoFrame

Delivered == rresult.kind \in {"Message", "EndOfStream"}

\* C14: a Reply or Router reader answers every frame that receive accepts
\* and decodes (Message, EndOfStream) with the two bytes "OK", sent to the
\* peer the frame came from (on a Router: to the received routing id);
\* when that send fails receive still returns the message.  Other results
\* and Subscriber readers send nothing.
C14_AcceptedFramesConfirmed ==
    FrameHandled =>
        /\ (Delivered /\ rrole \in {"Rep", "Router"}) =>
               /\ rack.data = <<79, 75>>
               /\ rack.to = rframe.routing_id
               /\ rrole = "Router" <=> rack.to # None
        /\ (~Delivered \/ rrole = "Sub") => rack = NoConfirmation
        /\ (rack # NoConfirmation /\ ~rack.sent) => Delivered

\* C14 witness: a Router reader returns a Message although the "OK"
\* addressed to its peer could not be sent
C14_Witness ==
    /\ FrameHandled
    /\ rrole = "Router"
    /\ rresult.kind = "Message"
    /\ rack.data = <<79, 75>>
    /\ rack.to = rframe.routing_id
    /\ ~rack.sent

\* the stream has been sent and nothing of it is in flight
StreamDone == sposted = snum + 1 /\ wire = <<>>

\* the results are those of the frames 1..Len(log) of the stream
IsStreamPrefix(log) ==
    \A i \in 1..Len(log) :
        /\ log[i].seq = i
        /\ log[i].topic = Topic1
        /\ log[i].kind = IF i <= snum THEN "Message" ELSE "EndOfStream"

\* the results are those of frames of the stream, in the order sent,
\* none twice
IsStreamSubsequence(log) ==
    /\ \A i \in 1..Len(log) :
           /\ log[i].seq \in 1..(snum + 1)
           /\ log[i].topic = Topic1
           /\ log[i].kind = IF log[i].seq <= snum THEN "Message"
                            ELSE "EndOfStream"
    /\ \A i, j \in 1..Len(log) : i < j => log[i].seq < log[j].seq

\* C15 as stated: for every writer role, N data messages and an end of
\* stream sent on one topic to a connected reader whose prefix spec admits
\* the topic come out of receive as N Messages with the same topic and seq
\* ids in the order sent, followed by EndOfStream.
C15_StreamDelivered ==
    Admits(rprefix, Topic1) =>
        /\ IsStreamPrefix(slog)
        /\ StreamDone => Len(slog) = snum + 1

\* C15 amended: the results are never reordered or duplicated; the stream
\* arrives whole on Dealer/Router and Request/Reply, and on
\* Publisher/Subscriber when it fits below the high-water mark, where a
\* Publisher otherwise drops what the Subscriber has no room for.
C15_StreamInOrderUnlessDropped ==
    Admits(rprefix, Topic1) =>
        /\ IsStreamSubsequence(slog)
        /\ (wrole \in {"Dealer", "Req"} \/ snum + 1 <= shwm) =>
               /\ IsStreamPrefix(slog)
               /\ StreamDone => Len(slog) = snum + 1

\* C15 witness: a Router reader has received the longest stream whole from
\* a Dealer that had to wait for room
C15_Witness ==
    /\ Admits(rprefix, Topic1)
    /\ StreamDone
    /\ wrole = "Dealer"
    /\ shwm = 1
    /\ snum = MaxMsgs
    /\ Len(slog) = snum + 1
    /\ slog[snum + 1].kind = "EndOfStream"

\* C16: a receive on which no frame comes in returns Timeout, neither an
\* error nor a call that stays blocked, and only once the configured
\* receive timeout has elapsed.
C16_TimeoutAfterReceiveTimeout ==
    /\ [](rresult.kind = "Timeout" =>
             /\ rpc \in {"done", "idle"}
             /\ rframe = NoFrame
             /\ relapsed >= rtimeout)
    /\ [][(rpc = "waiting" /\ rpc' # "waiting" /\ rframe' = NoFrame)
          => rpc' = "done" /\ rresult'.kind = "Timeout"]_vars
    /\ (rpc = "waiting") ~>
           \/ rpc = "done" /\ (rresult.kind = "Timeout" \/ rframe # NoFrame)
           \/ rpc = "panicked"

\* C16 witness: a receive with the longest timeout has returned Timeout
C16_Witness ==
    /\ rpc = "done"
    /\ rresult.kind = "Timeout"
    /\ rtimeout = MaxTimeout
    /\ relapsed = MaxTimeout

\* C17 as stated: for a received frame with topic t the prefix spec admits
\* t exactly when receive returns Message or EndOfStream.
C17_AdmittedIffDelivered ==
    FrameHandled => (Admits(rprefix, rframe.topic) <=> Delivered)

\* C17 amended: receive returns Message or EndOfStream only for a topic the
\* prefix spec admits, and PrefixMismatch only for a topic it does not
\* admit; a frame with an admitted topic can also come back as
\* RoutingIdMismatch (the routing id filter denied it) or TooShort.
C17_DeliveredOnlyIfAdmitted ==
    FrameHandled =>
        /\ Delivered => Admits(rprefix, rframe.topic)
        /\ rresult.kind = "PrefixMismatch" => ~Admits(rprefix, rframe.topic)
        /\ Admits(rprefix, rframe.topic) =>
               rresult.kind \in {"Message", "EndOfStream",
                                 "RoutingIdMismatch", "TooShort"}
        /\ ~Admits(rprefix, rframe.topic) =>
               rresult.kind \in {"PrefixMismatch", "TooShort"}

\* C17 witness: a frame whose topic the prefix admits as a proper
\* extension was denied by the routing id filter
C17_Witness ==
    /\ FrameHandled
    /\ rprefix = Prefix(Topic1)
    /\ rframe.topic = LongTopic
    /\ rresult.kind = "RoutingIdMismatch"

(***************************************************************************)
(* Properties of parse_zmq_socket_uri                                      *)
(***************************************************************************)
\* the call has returned
Parsed == parsed # NotParsed

\* u starts with role+direction: of the grammar
OptionsAt1(u) ==
    /\ Len(u) >= 4
    /\ u[1] \in RoleWords
    /\ u[2] = "+"
    /\ u[3] \in DirWords
    /\ u[4] = ":"

\* u has scheme:// of the grammar at b
SchemeAt(u, b) ==
    /\ b + 3 <= Len(u)
    /\ u[b] \in SchemeWords
    /\ u[b + 1] = ":"
    /\ u[b + 2] = "/"
    /\ u[b + 3] = "/"

\* the whole of u is [role+direction:]scheme://endpoint[:source], the
\* source only after a writer role
MatchesGrammar(u) ==
    LET b == IF OptionsAt1(u) THEN 5 ELSE 1
        e == NotColonRunEnd(u, b + 4) - 1
    IN /\ SchemeAt(u, b)
       /\ b + 4 <= Len(u)
       /\ e >= b + 4
       /\ \/ e = Len(u)
          \/ e + 2 <= Len(u) /\ OptionsAt1(u) /\ u[1] \in WriterWords

\* index of the first token c of u, 0 when there is none
IndexOf(u, c) ==
    IF \E i \in 1..Len(u) : u[i] = c
    THEN CHOOSE i \in 1..Len(u) : u[i] = c /\ \A j \in 1..(i - 1) : u[j] # c
    ELSE 0

\* the lower-case word that ends right before index p
WordBefore(u, p) ==
    LET s == CHOOSE k \in 1..p :
                 /\ \A i \in k..(p - 1) : IsLower(u[i])
                 /\ k = 1 \/ ~IsLower(u[k - 1])
    IN SubSeq(u, s, p - 1)

\* the word before the first '+'
RoleToken(u) == WordBefore(u, IndexOf(u, "+"))

\* what stands between the first '+' and the ':' that follows it
DirToken(u) ==
    LET p == IndexOf(u, "+")
        rest == SubSeq(u, p + 1, Len(u))
        q == IndexOf(rest, ":")
    IN IF q = 0 THEN rest ELSE SubSeq(rest, 1, q - 1)

\* the word before the first "://"
SchemeToken(u) ==
    LET q == CHOOSE i \in 1..Len(u) :
                 /\ i + 2 <= Len(u)
                 /\ u[i] = ":" /\ u[i + 1] = "/" /\ u[i + 2] = "/"
                 /\ \A j \in 1..(i - 1) :
                        ~(u[j] = ":" /\ u[j + 1] = "/" /\ u[j + 2] = "/")
    IN WordBefore(u, q)

\* C18: parse_zmq_socket_uri(u) succeeds exactly when the whole of u, with
\* nothing before or after it, matches [role+direction:]scheme://endpoint
\* [:source] with one of the six roles, bind or connect, tcp or ipc, and a
\* source only after a writer role.
C18_ParseIffGrammar ==
    Parsed => (parsed.ok <=> MatchesGrammar(uri))

\* C19: parse_zmq_socket_uri fails for every uri whose role token is not
\* one of the six roles, whose direction token is not bind or connect, or
\* whose scheme is not tcp or ipc.
C19_UnknownTokensFail ==
    (/\ Parsed
     /\ \/ /\ IndexOf(uri, "+") > 0
           /\ RoleToken(uri) \notin {<<w>> : w \in RoleWords}
        \/ /\ IndexOf(uri, "+") > 0
           /\ DirToken(uri) \notin {<<w>> : w \in DirWords}
        \/ SchemeToken(uri) \notin {<<w>> : w \in SchemeWords})
    => ~parsed.ok

\* u is role+direction:scheme://endpoint followed by a tail ":s"
TailedUri(u) ==
    /\ OptionsAt1(u)
    /\ SchemeAt(u, 5)
    /\ 9 <= Len(u)
    /\ NotColonRunEnd(u, 9) > 9
    /\ NotColonRunEnd(u, 9) + 1 <= Len(u)

\* the s of the tail ":s"
TailOf(u) == SubSeq(u, NotColonRunEnd(u, 9) + 1, Len(u))

\* C20: after a writer role (pub, dealer, req) a tail ":s" behind the
\* endpoint makes the parse succeed with source s, the tail without its
\* colon; after a reader role (sub, router, rep) any tail makes it fail.
C20_TailIsWriterSource ==
    (Parsed /\ TailedUri(uri)) =>
        /\ uri[1] \in WriterWords =>
               /\ parsed.ok
               /\ parsed.source = Some(TailOf(uri))
               /\ parsed.endpoint = SubSeq(uri, 5, NotColonRunEnd(uri, 9) - 1)
        /\ uri[1] \in ReaderWords => ~parsed.ok

\* C20 witness: a dealer uri whose tail holds a colon of its own was parsed
C20_Witness ==
    /\ Parsed
    /\ TailedUri(uri)
    /\ uri[1] = "dealer"
    /\ TailOf(uri) = <<"x", ":", "1">>
    /\ parsed.ok
    /\ parsed.source = Some(<<"x", ":", "1">>)

\* C21: every descriptor a successful parse_zmq_socket_uri returns has a
\* source only if its socket_type is a writer role, and has a bind exactly
\* when it has a socket_type.
C21_SourceOnlyWriterBindIffType ==
    (Parsed /\ parsed.ok) =>
        /\ parsed.source # NoneOpt =>
               /\ parsed.socket_type # NoneOpt
               /\ parsed.socket_type[1].class = "Writer"
        /\ parsed.bind # NoneOpt <=> parsed.socket_type # NoneOpt

\* C21 witness: a parse returned a connecting publisher with a source
C21_Witness ==
    /\ Parsed
    /\ parsed.ok
    /\ parsed.source = Some(<<"1">>)
    /\ parsed.socket_type = Some([class |-> "Writer", type |-> "Pub"])
    /\ parsed.bind = Some(FALSE)

\* C22: on success the endpoint is the scheme://address part of the uri
\* with its tcp:// or ipc:// prefix; a uri without role+direction: yields
\* neither bind nor socket_type; a uri with it yields the named role and
\* bind = true for bind, false for connect.
C22_EndpointRoleBind ==
    (Parsed /\ parsed.ok) =>
        LET b == IF OptionsAt1(uri) THEN 5 ELSE 1 IN
        /\ SchemeAt(uri, b)
        /\ parsed.endpoint = SubSeq(uri, b, NotColonRunEnd(uri, b + 4) - 1)
        /\ ~OptionsAt1(uri) =>
               /\ parsed.bind = NoneOpt
               /\ parsed.socket_type = NoneOpt
        /\ OptionsAt1(uri) =>
               /\ parsed.socket_type = Some(SocketTypeOf(uri[1]))
               /\ parsed.bind = Some(uri[3] = "bind")

EqualBytes(t, s) ==
    Len(t) = Len(s) /\ \A i \in 1..Len(s) : t[i] = s[i]

\* t begins with the bytes of s
BeginsWith(t, s) ==
    Len(t) >= Len(s) /\ \A i \in 1..Len(s) : t[i] = s[i]

\* t is s followed by at least one more byte
IsProperExtension(t, s) == BeginsWith(t, s) /\ Len(t) > Len(s)

\* C24: matches(topic) is true exactly when the topic bytes equal s for
\* SourceId(s), when they start with s for Prefix(s), and always for None;
\* SourceId(s) rejects every proper extension of s and Prefix(s) rejects
\* every proper prefix of s.
C24_MatchesExactPrefixAny ==
    tmatched.called =>
        /\ tspec.kind = "SourceId" =>
               (tmatched.ret <=> EqualBytes(ttopic, tspec.s))
        /\ tspec.kind = "Prefix" =>
               (tmatched.ret <=> BeginsWith(ttopic, tspec.s))
        /\ tspec.kind = "None" => tmatched.ret
        /\ (tspec.kind = "SourceId" /\ IsProperExtension(ttopic, tspec.s))
               => ~tmatched.ret
        /\ (tspec.kind = "Prefix" /\ IsProperExtension(tspec.s, ttopic))
               => ~tmatched.ret

\* C24 witness: a source id spec was asked about a proper extension of
\* its source id and rejected it
C24_Witness ==
    /\ tmatched.called
    /\ tspec = SourceId(<<1, 2>>)
    /\ ttopic = <<1, 2, 1>>
    /\ ~tmatched.ret

(***************************************************************************)
(* Properties of the mock socket                                           *)
(***************************************************************************)
\* the call the step has made
LastCall(log) == log[Len(log)]

\* C25: on the mock socket send and send_multipart return Ok, replace the
\* whole buffer with the supplied frames (send: one frame) and invoke the
\* responder exactly once, on that buffer; recv_multipart returns the
\* buffer as the responder left it and leaves it empty, so that a
\* recv_multipart right after a recv_multipart returns no frame.
C25_MockSendReplacesRecvDrains ==
    [][Len(mlog') = Len(mlog) + 1 =>
          LET c == LastCall(mlog') IN
          /\ c.op \in {"send", "send_multipart"} =>
                 /\ c.ok
                 /\ c.op = "send" => Len(c.parts) = 1
                 /\ mfix' = Append(mfix, c.parts)
                 /\ mdata' = fix(mresp, c.parts)
          /\ c.op = "recv_multipart" =>
                 /\ c.ok
                 /\ c.ret = mdata
                 /\ mdata' = <<>>
                 /\ mfix' = mfix
                 /\ (mlog # <<>> /\ LastCall(mlog).op = "recv_multipart")
                        => c.ret = <<>>]_vars

\* C25 witness: after a send the first recv_multipart returned the frame
\* with the reply the responder added, and the second returned nothing
C25_Witness ==
    /\ mresp = "Append"
    /\ Len(mlog) = 3
    /\ mlog[1] = MockCall("send", <<<<1>>>>, TRUE, <<>>)
    /\ mlog[2] = MockCall("recv_multipart", <<>>, TRUE,
                          <<<<1>>, CONFIRMATION_MESSAGE>>)
    /\ mlog[3] = MockCall("recv_multipart", <<>>, TRUE, <<>>)
    /\ mfix = <<<<<<1>>>>>>
    /\ mdata = <<>>

(***************************************************************************)
(* Properties of create_ipc_dirs and set_ipc_permissions                   *)
(***************************************************************************)
\* the endpoint without its "ipc://", and the path it names
EndpointString == StripIpcPrefix(fendpoint)[1]
EndpointPath == Components(EndpointString)

\* q is a directory above p
IsAncestor(q, p) == Len(q) < Len(p) /\ SubSeq(p, 1, Len(q)) = q

\* create_ipc_dirs has just returned
AfterCreate ==
    fpc \in {"prepared", "failed"} /\ fret.op = "create_ipc_dirs"

\* set_ipc_permissions has just returned
AfterSetPermissions ==
    fpc \in {"done", "failed"} /\ fret.op = "set_ipc_permissions"

\* the call returned Ok(()), every directory above the path exists, and
\* nothing else was created, removed or changed
ParentsCreated ==
    /\ fret.ret = "ok"
    /\ \A q \in FsPaths :
           IF IsAncestor(q, EndpointPath) /\ ~Exists(fbefore, q)
           THEN IsDir(fs, q)
           ELSE fs[q] = fbefore[q]
    /\ \A q \in FsPaths : IsAncestor(q, EndpointPath) => IsDir(fs, q)

\* the call returned an error and left the file system as it was
FailedUnchanged == fret.ret = "err" /\ fs = fbefore

\* C26 as stated: create_ipc_dirs on an ipc:// endpoint fails, leaving the
\* file system unchanged, if the path is empty or exists as a directory,
\* and otherwise creates every missing parent directory of the path.
C26_CreateIpcDirs ==
    AfterCreate =>
        IF EndpointString = <<>> \/ IsDir(fbefore, EndpointPath)
        THEN FailedUnchanged
        ELSE ParentsCreated

\* the path lies below something that is not a directory
BelowFile ==
    \E q \in FsPaths :
        IsAncestor(q, EndpointPath) /\ Exists(fbefore, q) /\ ~IsDir(fbefore, q)

\* C26 amended: create_ipc_dirs on an ipc:// endpoint fails, leaving the
\* file system unchanged, if the path is empty, if it exists as a
\* directory, or if it lies below an existing file, where no directory
\* can be made; otherwise it creates every missing parent directory of
\* the path and changes nothing else.
C26_CreateIpcDirsUnlessBelowFile ==
    AfterCreate =>
        IF \/ EndpointString = <<>>
           \/ IsDir(fbefore, EndpointPath)
           \/ BelowFile
        THEN FailedUnchanged
        ELSE ParentsCreated

\* C26 witness: create_ipc_dirs made the two missing directories above
\* the path /a/b/s
C26_Witness ==
    /\ AfterCreate
    /\ EndpointPath = <<"a", "b", "s">>
    /\ ~Exists(fbefore, <<"a">>)
    /\ IsDir(fs, <<"a">>)
    /\ IsDir(fs, <<"a", "b">>)
    /\ ~Exists(fs, <<"a", "b", "s">>)
    /\ fret.ret = "ok"

\* C27: set_ipc_permissions on an ipc:// endpoint fails, changing
\* nothing, when no file exists at the path of the endpoint, and
\* otherwise sets the mode of that file to the permission bits given and
\* changes nothing else.
C27_SetIpcPermissions ==
    AfterSetPermissions =>
        IF ~Exists(fbefore, EndpointPath)
        THEN FailedUnchanged
        ELSE /\ fret.ret = "ok"
             /\ fs[EndpointPath].mode = fperm[1]
             /\ fs[EndpointPath].kind = fbefore[EndpointPath].kind
             /\ \A q \in FsPaths \ {EndpointPath} : fs[q] = fbefore[q]

\* C27 witness: the socket file at /a/s got the mode 0o600
C27_Witness ==
    /\ AfterSetPermissions
    /\ EndpointPath = <<"a", "s">>
    /\ fbefore[<<"a", "s">>] = FileEntry
    /\ fperm = Some(384)
    /\ fs[<<"a", "s">>].mode = 384
    /\ fret.ret = "ok"

\* C28: for a tcp:// endpoint the steps before and after the bind are
\* no-ops: none fails or panics, and none creates, removes or changes an
\* entry of the file system.
C28_TcpIsNoOp ==
    (fendpoint # <<>> /\ fendpoint[1] = "tcp") =>
        /\ fret.ret = "ok"
        /\ fpc # "failed"
        /\ fret.op \notin {"create_ipc_dirs", "set_ipc_permissions"}
        /\ fs = fbefore

\* C28 witness: a socket with a tcp:// endpoint and permission bits
\* configured went through all steps
C28_Witness ==
    /\ fendpoint = <<"tcp", ":", "/", "/", "a">>
    /\ fperm = Some(IPC_PERMISSIONS)
    /\ fpc = "done"
    /\ fret.ret = "ok"
    /\ fs = fbefore

(***************************************************************************)
(* Properties of the objects of a VideoFrame                               *)
(***************************************************************************)
\* the object o is selected by (negated, creator, label)
Selected(o, negated, creator, label) ==
    ((creator = NoneOpt \/ creator[1] = o.creator)
        /\ (label = NoneOpt \/ label[1] = o.label)) # negated

\* the sequence objs without the addresses of gone, the rest in order
Without(objs, gone) == SelectSeq(objs, LAMBDA r : r \notin gone)

\* C29: delete_objects(negated, creator, label) removes exactly the
\* objects that access_objects(negated, creator, label) returns on the
\* same frame and keeps all others, unchanged, in their order; an
\* object is returned iff ((creator absent or equal to its creator) and
\* (label absent or equal to its label)) XOR negated.
C29_DeleteRemovesWhatAccessReturns ==
    [][\A negated \in BOOLEAN, creator \in ArgCreators, label \in ArgLabels :
          DeleteObjectsWith(negated, creator, label) =>
              LET returned == SeqToSet(access_objects(resident_objects, heap,
                                                      negated, creator,
                                                      label))
              IN /\ \A r \in SeqToSet(resident_objects) :
                        r \in returned
                            <=> Selected(heap[r], negated, creator, label)
                 /\ ObjectsOf(resident_objects', heap')
                        = ObjectsOf(Without(resident_objects, returned),
                                    heap)]_vars

\* C29 witness: delete_objects has removed the second of three objects
\* and kept the first and the third
C29_Witness ==
    /\ flast.op = "delete_objects"
    /\ ObjectsOf(resident_objects, heap)
           = <<InnerObject(0, "test", "test"), InnerObject(2, "test2", "test")>>

\* C30: a restore after a snapshot leaves the frame with exactly the
\* objects, in the same order and with the same field values, that it
\* had at the most recent snapshot, whatever modifications through
\* handles, add_object, delete_objects, delete_objects_by_ids and
\* clear_objects calls came in between.
C30_RestoreGivesSnapshot ==
    (flast.op = "restore" /\ snapped.taken) =>
        ObjectsOf(resident_objects, heap) = snapped.objects

\* C30 witness: the frame was restored to two objects after it had been
\* changed, while the caller still holds the object whose id it set
C30_Witness ==
    /\ flast.op = "restore"
    /\ snapped.taken
    /\ snapped.changed
    /\ Len(snapped.objects) = 2
    /\ snapped.objects[1].id = 0
    /\ \E h \in handles :
           /\ h \notin SeqToSet(resident_objects)
           /\ heap[h].id = 1
    /\ ObjectsOf(resident_objects, heap) = snapped.objects

(***************************************************************************)
(* Further properties of the routing id filter                             *)
(***************************************************************************)
\* C31: every topic that has received a call carrying a routing id has a
\* current id, which is never removed and is the routing id of the most
\* recent call on that topic that carried a routing id and returned true.
C31_CurrentIsLatestAllowed ==
    \A t \in Topics :
        last[t].carried =>
            /\ t \in DOMAIN ids
            /\ ids[t] \in RoutingIds
            /\ ids[t] = last[t].id

\* C31 witness: the latest call offered an id other than the current one
\* of its topic and was denied, after the topic had changed its id
C31_Witness ==
    /\ result = "false"
    /\ call.topic \in DOMAIN ids
    /\ call.routing_id # ids[call.topic]
    /\ last[call.topic].id = ids[call.topic]
    /\ \E p \in stale : p[1] = call.topic /\ p[2] # call.routing_id

\* C32: a call that returns false, and a call whose routing id is the
\* current id of its topic, leave the current ids and the expired set,
\* its least-recently-used order included, as they were.
C32_DeniedAndSameIdChangeNothing ==
    [][\A t \in Topics, x \in RoutingIds :
           (/\ Called(t, x)
            /\ \/ result' = "false"
               \/ HasCurrent(t) /\ ids[t] = x)
           => /\ ids' = ids
              /\ expired' = expired]_vars

\* C32 witness: the latest call was denied on the least recent of two
\* expired pairs, which still is the least recent one
C32_Witness ==
    /\ result = "false"
    /\ Len(expired) = 2
    /\ expired[1] = <<call.topic, call.routing_id>>

\* C33: for every capacity and every interleaving of calls on two topics,
\* the calls on one topic return what the same calls return when issued
\* alone, in the same order, on a fresh filter of the same capacity.
C33_TopicsIndependent == solo.agree

\* C33, amended: the same, for every call that is made when no more calls
\* than the capacity have replaced a current id, on either topic.
C33_IndependentWithinCapacity ==
    [][(solo.agree /\ solo.changes <= capacity) => solo'.agree]_vars

\* C33 witness: both topics have changed their id, within the capacity,
\* and the old id of Topic1 was then denied by both filters
C33_Witness ==
    /\ solo.changes <= capacity
    /\ solo.agree
    /\ result = "false"
    /\ call.topic = Topic1
    /\ \E p \in stale : p[1] = Topic2
    /\ Contains(solo.expired, <<Topic1, call.routing_id>>)
    /\ solo.expired # expired

(***************************************************************************)
(* Further properties of parse_zmq_socket_uri                              *)
(***************************************************************************)
\* u has a scheme:// at b that an address follows
AddressAt(u, b) == SchemeAt(u, b) /\ b + 4 <= Len(u) /\ u[b + 4] # ":"

\* index of the first scheme:// of u that an address follows
EndpointStart(u) ==
    CHOOSE b \in 1..Len(u) :
        AddressAt(u, b) /\ \A a \in 1..(b - 1) : ~AddressAt(u, a)

\* index of the first ':' of u from s on, Len(u) + 1 when there is none
FirstColonFrom(u, s) ==
    CHOOSE k \in s..(Len(u) + 1) :
        /\ k = Len(u) + 1 \/ u[k] = ":"
        /\ \A i \in s..(k - 1) : u[i] # ":"

\* C34: on success the endpoint holds no ':' but that of its "://": it
\* ends before the first ':' that follows, and everything behind that ':'
\* is the source, further ':' included.
C34_EndpointEndsAtFirstColon ==
    (Parsed /\ parsed.ok) =>
        /\ \E b \in 1..Len(uri) : AddressAt(uri, b)
        /\ LET b == EndpointStart(uri)
               c == FirstColonFrom(uri, b + 4)
           IN
           /\ parsed.endpoint = SubSeq(uri, b, c - 1)
           /\ \A i \in 1..Len(parsed.endpoint) :
                  parsed.endpoint[i] = ":" => i = 2
           /\ parsed.source = IF c + 1 <= Len(uri)
                               THEN Some(SubSeq(uri, c + 1, Len(uri)))
                               ELSE NoneOpt

\* C34 witness: pub+bind:tcp://x:1:x was parsed into the endpoint tcp://x
\* and the source 1:x
C34_Witness ==
    /\ uri = <<"pub", "+", "bind", ":", "tcp", ":", "/", "/", "x", ":", "1",
               ":", "x">>
    /\ Parsed
    /\ parsed.ok
    /\ parsed.endpoint = <<"tcp", ":", "/", "/", "x">>
    /\ parsed.source = Some(<<"1", ":", "x">>)

\* index of the first "://" of u, 0 when there is none
IndexOfSeparator(u) ==
    LET at(i) == i + 2 <= Len(u) /\ u[i] = ":" /\ u[i + 1] = "/"
                     /\ u[i + 2] = "/"
    IN IF \E i \in 1..Len(u) : at(i)
       THEN CHOOSE i \in 1..Len(u) : at(i) /\ \A j \in 1..(i - 1) : ~at(j)
       ELSE 0

\* u has no role+direction: in front of its "://"
Bare(u) == IndexOfSeparator(u) > 0 /\ IndexOf(u, "+") = 0

\* a tail ":s" follows the address of u
HasTailBehindAddress(u) ==
    FirstColonFrom(u, IndexOfSeparator(u) + 3) + 1 <= Len(u)

\* C35: a uri without role+direction: that has a tail behind its endpoint
\* is rejected; such a uri is accepted only without a tail, and then it
\* has no source.
C35_BareUriTakesNoTail ==
    (Parsed /\ Bare(uri)) =>
        /\ HasTailBehindAddress(uri) => ~parsed.ok
        /\ parsed.ok => parsed.source = NoneOpt

\* C35 witness: tcp://x:1 was rejected for its tail
C35_Witness ==
    /\ uri = <<"tcp", ":", "/", "/", "x", ":", "1">>
    /\ Bare(uri)
    /\ HasTailBehindAddress(uri)
    /\ parsed =
           Err("Source specification is not allowed for reader sockets")

(***************************************************************************)
(* Further properties of the mock socket                                   *)
(***************************************************************************)
\* the calls that fill or empty the buffer
MockSends == {"send", "send_multipart"}
MockTakes == {"recv_multipart", "take_buffer"}

\* index of the latest send or take among the first k - 1 calls, 0 when
\* there is none
LatestFillOrTake(log, k) ==
    LET at(j) == log[j].op \in MockSends \cup MockTakes IN
    IF \E j \in 1..(k - 1) : at(j)
    THEN CHOOSE j \in 1..(k - 1) : at(j) /\ \A i \in (j + 1)..(k - 1) : ~at(i)
    ELSE 0

\* what the latest send before the k-th call left, if nothing took it
LeftByLastSend(log, k) ==
    LET j == LatestFillOrTake(log, k) IN
    IF j > 0 /\ log[j].op \in MockSends THEN fix(mresp, log[j].parts)
    ELSE <<>>

\* C36: the mock socket holds at most the frames of the last send: a
\* recv_multipart returns what the latest send before it and its responder
\* call left, whatever was sent earlier, and nothing if that was taken
\* already; frames of an earlier send are never returned.
C36_OnlyLastSendHeld ==
    /\ mdata = LeftByLastSend(mlog, Len(mlog) + 1)
    /\ \A k \in 1..Len(mlog) :
           mlog[k].op = "recv_multipart" =>
               mlog[k].ret = LeftByLastSend(mlog, k)

\* C36 witness: two sends of different frames with no receive between
\* them, then a recv_multipart that returned the second frame only
C36_Witness ==
    /\ mresp = "Noop"
    /\ Len(mlog) = 3
    /\ mlog[1] = MockCall("send", <<<<1>>>>, TRUE, <<>>)
    /\ mlog[2] = MockCall("send_multipart", <<<<2>>>>, TRUE, <<>>)
    /\ mlog[3] = MockCall("recv_multipart", <<>>, TRUE, <<<<2>>>>)
    /\ mdata = <<>>
====
